---------------------------- MODULE Spec2Model ----------------------------
(***************************************************************************)
(* A model of Octopus, the equivalence checker for P4 packet parsers:      *)
(* the symbolic bisimulation engine (src/src/bisimulation/bisimulation.py) *)
(* together with the formula algebra, the strongest postcondition of the   *)
(* operation blocks and the symbolic transitions of the transition blocks  *)
(* it drives.                                                              *)
(*                                                                         *)
(* Conventions.                                                            *)
(*  - A Python object that is compared by identity (GuardedFormula) gets   *)
(*    an id (0 stands for no object); None is a record of its own.         *)
(*  - The SMT solver is an oracle: is_sat and is_valid are decided here by *)
(*    a complete search over the bit-vector assignments of the variables   *)
(*    that occur in the query.                                             *)
(*  - parser1 is the left program (is_left = True), parser2 the right one, *)
(*    as octopus/main.py builds them; a component's strongest              *)
(*    postcondition acts on the side of the program that owns it.          *)
(*  - Header widths of the scenarios are scaled down (48 -> 2, 32 -> 4,    *)
(*    16 -> 2, 8 -> 1 bits); the engine never looks at a width except to   *)
(*    add, subtract and compare it.                                        *)
(***************************************************************************)
EXTENDS Integers, Sequences, FiniteSets, TLC

None == [t |-> "None"]

RECURSIVE Pow2(_)
Pow2(n) == IF n = 0 THEN 1 ELSE 2 * Pow2(n - 1)

(***************************************************************************)
(* Formula nodes (bisimulation/formula.py, program/expression.py).         *)
(***************************************************************************)
Variable(name, size) == [t |-> "var", name |-> name, size |-> size]

TrueF == [t |-> "true"]

FalseF == [t |-> "false"]

Not(subformula) == [t |-> "not", sub |-> subformula]

And(left, right) == [t |-> "and", l |-> left, r |-> right]

Equals(left, right) == [t |-> "eq", l |-> left, r |-> right]

Concatenate(left, right) == [t |-> "concat", l |-> left, r |-> right]

Constant(numeric_value, size) == [t |-> "const", value |-> numeric_value, size |-> size]

\* pysmt.Or over a collection of formulas, pysmt.Implies
OrF(fs) == [t |-> "or", fs |-> fs]

Implies(left, right) == [t |-> "implies", l |-> left, r |-> right]

\* __len__ of an expression node
RECURSIVE SizeOf(_)
SizeOf(e) ==
    CASE e.t = "var" -> e.size
      [] e.t = "const" -> e.size
      [] e.t = "concat" -> SizeOf(e.l) + SizeOf(e.r)

\* The names of the variables of a node (used_vars)
RECURSIVE used_vars(_)
used_vars(f) ==
    CASE f.t = "var" -> {f}
      [] f.t \in {"true", "false", "const"} -> {}
      [] f.t = "not" -> used_vars(f.sub)
      [] f.t \in {"and", "eq", "concat", "implies"} -> used_vars(f.l) \cup used_vars(f.r)
      [] f.t = "or" -> UNION {used_vars(g) : g \in f.fs}

\* Variable.substitute, And.substitute, ...: replace mapped variables
RECURSIVE substitute(_, _)
\* Faulty variant of substitute: the right operand of a node is substituted
\* only when the left one holds no mapped variable
SubstituteOneSide(f, mapping) ==
    CASE f.t = "var" -> IF f \in DOMAIN mapping THEN mapping[f] ELSE f
      [] f.t \in {"true", "false", "const"} -> f
      [] f.t = "not" -> Not(substitute(f.sub, mapping))
      [] OTHER -> IF substitute(f.l, mapping) # f.l
                  THEN [f EXCEPT !.l = substitute(f.l, mapping)]
                  ELSE [f EXCEPT !.r = substitute(f.r, mapping)]

substitute(f, mapping) ==
    CASE f.t = "var" -> IF f \in DOMAIN mapping THEN mapping[f] ELSE f
      [] f.t \in {"true", "false", "const"} -> f
      [] f.t = "not" -> Not(substitute(f.sub, mapping))
      [] f.t = "and" -> And(substitute(f.l, mapping), substitute(f.r, mapping))
      [] f.t = "eq" -> Equals(substitute(f.l, mapping), substitute(f.r, mapping))
      [] f.t = "concat" -> Concatenate(substitute(f.l, mapping), substitute(f.r, mapping))

(***************************************************************************)
(* The solver oracle: bit-vector semantics of to_smt.                      *)
(***************************************************************************)
\* The value of a bit-vector term under an assignment of names to naturals
RECURSIVE Val(_, _)
Val(e, asg) ==
    CASE e.t = "var" -> asg[e.name]
      [] e.t = "const" -> e.value % Pow2(e.size)
      [] e.t = "concat" -> Val(e.l, asg) * Pow2(SizeOf(e.r)) + Val(e.r, asg)

RECURSIVE Eval(_, _)
Eval(f, asg) ==
    CASE f.t = "true" -> TRUE
      [] f.t = "false" -> FALSE
      [] f.t = "not" -> ~Eval(f.sub, asg)
      [] f.t = "and" -> Eval(f.l, asg) /\ Eval(f.r, asg)
      [] f.t = "implies" -> Eval(f.l, asg) => Eval(f.r, asg)
      [] f.t = "or" -> \E g \in f.fs : Eval(g, asg)
      [] f.t = "eq" -> Val(f.l, asg) = Val(f.r, asg)

\* The conjuncts a formula is the conjunction of
RECURSIVE Conjuncts(_)
Conjuncts(f) ==
    CASE f.t = "and" -> Conjuncts(f.l) \cup Conjuncts(f.r)
      [] f.t = "true" -> {}
      [] f.t = "not" /\ f.sub.t = "implies" ->
            Conjuncts(f.sub.l) \cup Conjuncts(Not(f.sub.r))
      [] f.t = "not" /\ f.sub.t = "or" ->
            UNION {Conjuncts(Not(g)) : g \in f.sub.fs}
      [] f.t = "not" /\ f.sub.t = "not" -> Conjuncts(f.sub.sub)
      [] OTHER -> {f}

\* The variables of a set, ordered by name
RECURSIVE SortVars(_)
SortVars(vs) ==
    IF vs = {} THEN <<>>
    ELSE LET v == CHOOSE w \in vs : \A u \in vs : w.name <= u.name
         IN <<v>> \o SortVars(vs \ {v})

\* Backtracking search: extend asg over the remaining variables so that every
\* conjunct holds; a conjunct is tested as soon as all its variables are set.
RECURSIVE SatFrom(_, _, _)
SatFrom(atoms, vars, asg) ==
    IF vars = <<>> THEN TRUE
    ELSE LET v == Head(vars)
             done == DOMAIN asg \cup {v.name}
             now == {a \in atoms : v.name \in a.vs /\ a.vs \subseteq done}
         IN \E val \in 0 .. (Pow2(v.size) - 1) :
                LET a2 == (v.name :> val) @@ asg
                IN /\ \A a \in now : Eval(a.f, a2)
                   /\ SatFrom(atoms, Tail(vars), a2)

\* solver.is_sat(F): some assignment of the free variables satisfies F
is_sat(F) ==
    LET cs == Conjuncts(F)
        atoms == {[f |-> c, vs |-> {v.name : v \in used_vars(c)}] : c \in cs}
    IN /\ \A a \in atoms : a.vs = {} => Eval(a.f, <<>>)
       /\ SatFrom(atoms, SortVars(used_vars(F)), <<>>)

\* solver.is_valid(F): every assignment of the free variables satisfies F
is_valid(F) == ~is_sat(Not(F))

(***************************************************************************)
(* Parser IR (program/parser_program.py, parser_state.py,                  *)
(* operation_block.py, component.py, transition_block.py).                 *)
(*                                                                         *)
(* A program is given as the IR document lists it: the header types (each  *)
(* an ordered list of <<field, width>>) and the states in source order,    *)
(* each with the headers it extracts and its selectExpression.             *)
(***************************************************************************)
DontCare == [t |-> "dontcare"]

\* Extract.parse: the header's reference, its fields in source order, its size
RECURSIVE SumSizes(_)
SumSizes(fields) ==
    IF fields = <<>> THEN 0 ELSE Head(fields)[2] + SumSizes(Tail(fields))

Extract(types, header_name) ==
    [kind |-> "Extract",
     header_reference |-> header_name,
     header_content |-> types[header_name],
     size |-> SumSizes(types[header_name])]

\* OperationBlock.parse: the components in source order; size sums the extracts
RECURSIVE OperationBlock(_, _)
OperationBlock(types, components) ==
    IF components = <<>> THEN [components |-> <<>>, size |-> 0]
    ELSE LET c == Extract(types, Head(components))
             rest == OperationBlock(types, Tail(components))
         IN [components |-> <<c>> \o rest.components, size |-> c.size + rest.size]

\* Equality of two case keys as the dict of cases sees it: tuples of Constant
\* (equal by numeric value) and DontCare (all equal, one hash)
KeyEqual(k1, k2) ==
    /\ Len(k1) = Len(k2)
    /\ \A i \in 1 .. Len(k1) :
          /\ k1[i].t = k2[i].t
          /\ k1[i].t = "const" => k1[i].value = k2[i].value

\* self._cases[tuple(for_exprs)] = to_state_name on an insertion-ordered dict:
\* a key that is already present keeps its place and gets the new target
CasesInsert(cases, for_exprs, to_state) ==
    IF \E i \in 1 .. Len(cases) : KeyEqual(cases[i].for_exprs, for_exprs)
    THEN [i \in 1 .. Len(cases) |->
            IF KeyEqual(cases[i].for_exprs, for_exprs)
            THEN [for_exprs |-> cases[i].for_exprs, to |-> to_state]
            ELSE cases[i]]
    ELSE Append(cases, [for_exprs |-> for_exprs, to |-> to_state])

\* ParserProgram.get_header for a field reference <<header, field>>: its width
get_header(types, reference) ==
    LET fields == types[reference[1]]
        i == CHOOSE j \in 1 .. Len(fields) : fields[j][1] = reference[2]
    IN fields[i][2]

\* parse_expression of a keyset component in the size context of its selector
parse_expression(component, size_context) ==
    IF component.Node_Type = "Constant"
    THEN Constant(component.value, size_context)
    ELSE DontCare

RECURSIVE ParseSelectCases(_, _, _)
ParseSelectCases(selectCases, selectors, cases) ==
    IF selectCases = <<>> THEN cases
    ELSE LET case == Head(selectCases)
             for_exprs == [i \in 1 .. Len(case.keyset) |->
                              parse_expression(case.keyset[i], selectors[i].size)]
         IN ParseSelectCases(Tail(selectCases), selectors,
                             CasesInsert(cases, for_exprs, case.state))

\* TransitionBlock.parse: a PathExpression is the single case (DontCare,) with
\* no selectors; a SelectExpression lists selectors and cases; a
\* selectExpression of another type is ignored
TransitionBlock(types, select_expr) ==
    IF select_expr.Node_Type \notin {"PathExpression", "SelectExpression"}
    THEN [selectors |-> <<>>, cases |-> <<>>]
    ELSE IF select_expr.Node_Type = "PathExpression"
    THEN [selectors |-> <<>>,
          cases |-> <<[for_exprs |-> <<DontCare>>, to |-> select_expr.name]>>]
    ELSE LET selectors == [i \in 1 .. Len(select_expr.select) |->
                              [reference |-> select_expr.select[i],
                               size |-> get_header(types, select_expr.select[i])]]
         IN [selectors |-> selectors,
             cases |-> ParseSelectCases(select_expr.selectCases, selectors, <<>>)]

ParserState(types, state) ==
    [operation_block |-> OperationBlock(types, state.components),
     transition_block |-> TransitionBlock(types, state.selectExpression)]

\* Faulty variant of ParserProgram: the terminal states are stored as well
ParserProgramAll(json, is_left) ==
    LET named == 1 .. Len(json.states)
        last(n) == CHOOSE i \in named :
                      /\ json.states[i].name = n
                      /\ \A j \in named : json.states[j].name = n => j <= i
    IN [is_left |-> is_left,
        states |-> [n \in {json.states[i].name : i \in named} |->
                        ParserState(json.types, json.states[last(n)])]]

\* ParserProgram._parse_parser_block: the states by name, terminals skipped
ParserProgram(json, is_left) ==
    LET named == {i \in 1 .. Len(json.states) :
                     json.states[i].name \notin {"reject", "accept"}}
        last(n) == CHOOSE i \in named :
                      /\ json.states[i].name = n
                      /\ \A j \in named : json.states[j].name = n => j <= i
    IN [is_left |-> is_left,
        states |-> [n \in {json.states[i].name : i \in named} |->
                        ParserState(json.types, json.states[last(n)])]]

\* ParserProgram.__init__ without json: no types, no names, no states
EmptyProgram(is_left) ==
    [t |-> "ParserProgram",
     is_left |-> is_left,
     types |-> [n \in {} |-> <<>>],
     input_name |-> None,
     output_name |-> None,
     output_type |-> None,
     states |-> [n \in {} |-> None]]

\* _parse_data_type: self._types[type_name] = fields
_parse_data_type(prog, obj) ==
    [prog EXCEPT !.types = (obj.name :> obj.fields) @@ prog.types]

\* the loop over the parameters of _parse_parser_block: the parameter with
\* direction 'out' names the output and its type, any other names the input
RECURSIVE ParseParameters(_, _)
ParseParameters(prog, parameters) ==
    IF parameters = <<>> THEN prog
    ELSE LET parameter == Head(parameters)
         IN ParseParameters(
                IF parameter.direction = "out"
                THEN [prog EXCEPT !.output_name = [t |-> "str", s |-> parameter.name],
                                  !.output_type = [t |-> "str", s |-> parameter.type]]
                ELSE [prog EXCEPT !.input_name = [t |-> "str", s |-> parameter.name]],
                Tail(parameters))

\* a state that extracts a header, or selects on a field, the types do not hold
UnknownReference(types, state) ==
    \/ \E i \in 1 .. Len(state.components) : state.components[i] \notin DOMAIN types
    \/ /\ state.selectExpression.Node_Type = "SelectExpression"
       /\ \E i \in 1 .. Len(state.selectExpression.select) :
             LET reference == state.selectExpression.select[i]
             IN \/ reference[1] \notin DOMAIN types
                \/ \A j \in 1 .. Len(types[reference[1]]) :
                      types[reference[1]][j][1] # reference[2]

\* _parse_parser_block: the two names, then the states other than the
\* terminals, each stored under its name
_parse_parser_block(prog, obj) ==
    LET named == ParseParameters(prog, obj.parameters)
    IN IF named.input_name = None \/ named.output_name = None THEN [t |-> "raise", exc |-> "ValueError"]
       ELSE IF \E i \in 1 .. Len(obj.states) :
                  /\ obj.states[i].name \notin {"reject", "accept"}
                  /\ UnknownReference(named.types, obj.states[i])
       THEN [t |-> "raise", exc |-> "KeyError"]
       ELSE [named EXCEPT !.states =
                ParserProgram([types |-> named.types, states |-> obj.states],
                              named.is_left).states @@ named.states]

\* the loop of ParserProgram.parse over objects.vec: a P4Parser object is
\* skipped when the program already holds states
RECURSIVE ParseObjects(_, _)
ParseObjects(prog, vec) ==
    IF prog.t = "raise" \/ vec = <<>> THEN prog
    ELSE LET obj == Head(vec)
         IN ParseObjects(
                IF obj.Node_Type \in {"Type_Header", "Type_Struct"}
                THEN _parse_data_type(prog, obj)
                ELSE IF obj.Node_Type = "P4Parser"
                THEN IF DOMAIN prog.states # {} THEN prog
                     ELSE _parse_parser_block(prog, obj)
                ELSE prog,
                Tail(vec))

\* ParserProgram(json, is_left): parse(json) on the empty program
parse(json, is_left) ==
    IF "objects" \notin DOMAIN json THEN [t |-> "raise", exc |-> "ValueError"]
    ELSE ParseObjects(EmptyProgram(is_left), json.objects)

\* program.states[name]: a name that is not a key raises KeyError
Lookup(program, name) ==
    IF name \in DOMAIN program.states THEN program.states[name]
    ELSE [t |-> "raise", exc |-> "KeyError"]

(***************************************************************************)
(* Pure formulas: root, header_field_vars (a dict keyed by <<name, left>>) *)
(* and buf_vars (None for a side without buffer variable).                 *)
(***************************************************************************)
PureFormula(root, header_field_vars, buf_vars) ==
    [root |-> root, header_field_vars |-> header_field_vars, buf_vars |-> buf_vars]

get_header_field_var(pf, name, left) ==
    IF <<name, left>> \in DOMAIN pf.header_field_vars
    THEN pf.header_field_vars[<<name, left>>]
    ELSE None

get_buffer_var(pf, left) == pf.buf_vars[left]

\* FormulaManager.fresh_variable: the name is the counter, which then advances;
\* Variable.__init__ raises ValueError for size <= 0
\* Faulty variant of fresh_variable: the counter is not advanced
StaleVariable(next_free_var_name, size) ==
    [raised |-> size <= 0,
     var |-> Variable(next_free_var_name, size),
     next |-> next_free_var_name]

fresh_variable(next_free_var_name, size) ==
    [raised |-> size <= 0,
     var |-> Variable(next_free_var_name, size),
     next |-> next_free_var_name + 1]

(***************************************************************************)
(* Strongest postcondition (program/component.py, operation_block.py).     *)
(* The working state m carries the pure formula, the manager's counter and *)
(* whether an exception was raised.                                        *)
(***************************************************************************)
\* The loop over header_content.items() of Extract.strongest_postcondition:
\* a fresh variable per field, installed in header_field_vars; the variable
\* the field had before is mapped to the new one; the fields are chained
\* onto new_buffer, each new field in front of what was gathered so far
RECURSIVE ExtractFields(_, _, _, _)
ExtractFields(fields, header_reference, left, acc) ==
    IF fields = <<>> THEN acc
    ELSE LET field == Head(fields)[1]
             fv == fresh_variable(acc.next, Head(fields)[2])
             variable == fv.var
             store_name == <<header_reference, field>>
             key == <<store_name, left>>
             old_variable == IF key \in DOMAIN acc.header_field_vars
                             THEN acc.header_field_vars[key] ELSE None
         IN ExtractFields(Tail(fields), header_reference, left,
              [raised |-> acc.raised \/ fv.raised,
               next |-> fv.next,
               substitution |-> IF old_variable # None
                                THEN (old_variable :> variable) @@ acc.substitution
                                ELSE acc.substitution,
               header_field_vars |-> (key :> variable) @@ acc.header_field_vars,
               new_buffer |-> IF acc.new_buffer = None THEN variable
                              ELSE Concatenate(variable, acc.new_buffer)])

\* Extract.strongest_postcondition(manager, pf, left)
ExtractSP(m, c, left) ==
    LET pf == m.pf
        buffer_var == get_buffer_var(pf, left)
    IN IF m.raised THEN m
       ELSE IF buffer_var = None THEN [m EXCEPT !.raised = TRUE]
       ELSE LET length == buffer_var.size - c.size
                fb == fresh_variable(m.next, length)
                acc0 == [raised |-> FALSE,
                         next |-> IF length <= 0 THEN m.next ELSE fb.next,
                         substitution |-> <<>>,
                         header_field_vars |-> pf.header_field_vars,
                         new_buffer |-> IF length <= 0 THEN None ELSE fb.var]
                acc == ExtractFields(c.header_content, c.header_reference, left, acc0)
                substitution == (buffer_var :> acc.new_buffer) @@ acc.substitution
            IN [raised |-> acc.raised,
                next |-> acc.next,
                pf |-> PureFormula(
                         substitute(pf.root, substitution),
                         acc.header_field_vars,
                         IF length <= 0
                         THEN [pf.buf_vars EXCEPT ![left] = None]
                         ELSE pf.buf_vars)]

\* the operands of an assignment: a reference to a header field, and a
\* slice of one (program/expression.py)
Reference(reference) == [kind |-> "Reference", reference |-> reference]

Slice(reference, msb, lsb) == [kind |-> "Slice", reference |-> Reference(reference), msb |-> msb, lsb |-> lsb]

Assignment(left, right) == [kind |-> "Assignment", left |-> left, right |-> right]

\* Faulty variant of AssignmentVar: the slice is looked up by its field
AssignmentVarOfField(pf, c, left) ==
    get_header_field_var(pf, IF c.left.kind = "Slice" THEN c.left.reference.reference
                             ELSE c.left.reference, left)

\* line 88: pf.get_header_field_var(self.left.reference, left); the reference
\* of a Slice is a Reference object, which is no key of the dict
AssignmentVar(pf, c, left) ==
    IF c.left.kind = "Slice" THEN None
    ELSE get_header_field_var(pf, c.left.reference, left)

\* Assignment.strongest_postcondition(manager, pf, left): len(None) is a
\* TypeError; otherwise a fresh variable is taken, the root is substituted in
\* place, and PureFormula.clone_with_new_root, which PureFormula does not
\* have, is an AttributeError
AssignmentSP(m, c, left) ==
    LET reference_var == AssignmentVar(m.pf, c, left)
        new_var == fresh_variable(m.next, reference_var.size)
    IN IF reference_var = None
       THEN [raised |-> TRUE, exc |-> "TypeError", next |-> m.next, pf |-> m.pf]
       ELSE IF new_var.raised
       THEN [raised |-> TRUE, exc |-> "ValueError", next |-> m.next, pf |-> m.pf]
       ELSE [raised |-> TRUE, exc |-> "AttributeError", next |-> new_var.next,
             pf |-> PureFormula(substitute(m.pf.root, reference_var :> new_var.var),
                                m.pf.header_field_vars, m.pf.buf_vars)]

\* OperationBlock.strongest_postcondition: the components in source order
RECURSIVE strongest_postcondition(_, _, _)
strongest_postcondition(components, m, left) ==
    IF components = <<>> THEN m
    ELSE strongest_postcondition(Tail(components),
                                 ExtractSP(m, Head(components), left), left)

(***************************************************************************)
(* Symbolic transitions (program/transition_block.py).                     *)
(***************************************************************************)
\* The formula of one case: its non-DontCare patterns equal their selectors,
\* each Reference resolved by to_formula to the side's header variable
RECURSIVE CaseFormula(_, _, _, _, _, _)
CaseFormula(for_exprs, selectors, pf, left, i, formula) ==
    IF i > Len(for_exprs) THEN formula
    ELSE CaseFormula(for_exprs, selectors, pf, left, i + 1,
            IF for_exprs[i] = DontCare THEN formula
            ELSE And(formula,
                     Equals(for_exprs[i],
                            get_header_field_var(pf, selectors[i].reference, left))))

\* Faulty variant of AppendNotSeen: the earlier cases are not excluded
AppendNothing(appended_formula, seen) == appended_formula

\* appended_formula: the case's formula and the negation of every formula seen
RECURSIVE AppendNotSeen(_, _)
AppendNotSeen(appended_formula, seen) ==
    IF seen = <<>> THEN appended_formula
    ELSE AppendNotSeen(And(appended_formula, Not(Head(seen))), Tail(seen))

RECURSIVE CaseTransitions(_, _, _, _, _)
CaseTransitions(cases, selectors, pf, left, seen) ==
    IF cases = <<>> THEN <<>>
    ELSE LET formula == CaseFormula(Head(cases).for_exprs, selectors, pf, left, 1, TrueF)
         IN <<[form |-> AppendNotSeen(formula, seen), to |-> Head(cases).to]>>
            \o CaseTransitions(Tail(cases), selectors, pf, left, Append(seen, formula))

\* TransitionBlock.symbolic_transition(pf), listed in the order of the cases.
\* The Python result is a set: the engine enumerates it in an arbitrary order.
symbolic_transition(transition_block, pf, left) ==
    IF Len(transition_block.selectors) = 0
    THEN LET i == CHOOSE j \in 1 .. Len(transition_block.cases) :
                     KeyEqual(transition_block.cases[j].for_exprs, <<DontCare>>)
         IN <<[form |-> TrueF, to |-> transition_block.cases[i].to]>>
    ELSE CaseTransitions(transition_block.cases, transition_block.selectors,
                         pf, left, <<>>)

\* A selector whose field has no header variable: Reference.to_smt then fails
UnresolvedSelector(transition_block, pf, left) ==
    \E i \in 1 .. Len(transition_block.selectors) :
        get_header_field_var(pf, transition_block.selectors[i].reference, left) = None

(***************************************************************************)
(* Guarded formulas (bisimulation/formula.py).                             *)
(***************************************************************************)
\* Faulty variant of GuardedFormula: the two buffer lengths are exchanged
GuardedFormulaExchanged(id, state_left, state_right, buffer_length_left, buffer_length_right, pure_formula, prev_guarded_formula) ==
    [id |-> id,
     state_l |-> state_left,
     state_r |-> state_right,
     buf_len_l |-> buffer_length_right,
     buf_len_r |-> buffer_length_left,
     pf |-> pure_formula,
     prev_guarded_formula |-> prev_guarded_formula]

\* GuardedFormula.__init__
GuardedFormula(id, state_left, state_right, buffer_length_left, buffer_length_right, pure_formula, prev_guarded_formula) ==
    [id |-> id,
     state_l |-> state_left,
     state_r |-> state_right,
     buf_len_l |-> buffer_length_left,
     buf_len_r |-> buffer_length_right,
     pf |-> pure_formula,
     prev_guarded_formula |-> prev_guarded_formula]

\* GuardedFormula.initial_guard(): PureFormula(TRUE()) has empty dicts
initial_guard ==
    GuardedFormula(1, "start", "start", 0, 0,
                   PureFormula(TrueF, <<>>, [left \in BOOLEAN |-> None]), 0)

has_equal_guard(g, other) ==
    /\ g.state_l = other.state_l
    /\ g.state_r = other.state_r
    /\ g.buf_len_l = other.buf_len_l
    /\ g.buf_len_r = other.buf_len_r

(***************************************************************************)
(* The engine (bisimulation/bisimulation.py).                              *)
(***************************************************************************)
\* Faulty variant of get_relevant_formulas: the guard is not compared
get_all_formulas(know, guarded_form) == {seen.pf : seen \in know}

\* _get_relevant_formulas: the pure formulas of the seen formulas with the
\* guard of guarded_form
get_relevant_formulas(know, guarded_form) ==
    {seen.pf : seen \in {k \in know : has_equal_guard(guarded_form, k)}}

is_terminal(state_name) == state_name \in {"accept", "reject"}

has_new_information(relevant_pfs, guarded_form) ==
    ~is_valid(Implies(guarded_form.pf.root, OrF({pf.root : pf \in relevant_pfs})))

\* Faulty variant of Disagree: 'or' in place of '!='
DisagreeEither(state_l, state_r) == (state_l = "accept") \/ (state_r = "accept")

\* Faulty variant of Disagree: only a left accept against a right non-accept
DisagreeLeft(state_l, state_r) == (state_l = "accept") /\ (state_r # "accept")

\* (state_l == "accept") != (state_r == "accept")
Disagree(state_l, state_r) == (state_l = "accept") # (state_r = "accept")

\* constraint_to_smt of bisimulation.py for a comparison of one field of the
\* left parser with one field of the right parser
constraint_to_smt(c, pf) ==
    LET left_smt == get_header_field_var(pf, c.left, TRUE)
        right_smt == get_header_field_var(pf, c.right, FALSE)
        cmp == IF (left_smt = None) # (right_smt = None) THEN FalseF
               ELSE IF left_smt = None THEN TrueF
               ELSE IF c.op = "Eq" THEN Equals(left_smt, right_smt)
               ELSE Not(Equals(left_smt, right_smt))
    IN And(cmp, pf.root)

\* get_trace, lines 57-62: the chain of prev_guarded_formula from the initial
\* formula to guarded_form (every previous formula has been expanded, so it is
\* the object recorded in knowledge)
RECURSIVE get_trace(_, _)
\* Faulty variant of get_trace: trace.reverse() is left out
RECURSIVE TraceNewestFirst(_, _)
TraceNewestFirst(know, guarded_form) ==
    IF guarded_form.prev_guarded_formula = 0 THEN <<guarded_form>>
    ELSE LET prev == CHOOSE k \in know : k.id = guarded_form.prev_guarded_formula
         IN <<guarded_form>> \o TraceNewestFirst(know, prev)

get_trace(know, guarded_form) ==
    IF guarded_form.prev_guarded_formula = 0 THEN <<guarded_form>>
    ELSE LET prev == CHOOSE k \in know : k.id = guarded_form.prev_guarded_formula
         IN Append(get_trace(know, prev), guarded_form)

\* get_trace, lines 65-77: the buffer variables of one side gathered along
\* the trace, one that equals the variable gathered last being left out
RECURSIVE buf_vars_gathered(_, _)
buf_vars_gathered(trace, left) ==
    IF trace = <<>> THEN <<>>
    ELSE LET before == buf_vars_gathered(SubSeq(trace, 1, Len(trace) - 1), left)
             buf_var == trace[Len(trace)].pf.buf_vars[left]
         IN IF buf_var # None /\ (Len(before) < 1 \/ before[Len(before)] # buf_var)
            THEN Append(before, buf_var)
            ELSE before

\* get_trace, lines 107-118: a stream is read from the solver's model for a
\* side that gathered buffer variables; when neither side gathered one the
\* report says 'N/A (no buffer variables were used)'
counterexample_na(trace) ==
    Len(buf_vars_gathered(trace, TRUE)) = 0 /\ Len(buf_vars_gathered(trace, FALSE)) = 0

\* Faulty variant of Leap: the larger of the two distances when both sides run
LeapMax(leaps, reject_l, reject_r, op_size_l, op_size_r, buf_len_l, buf_len_r) ==
    IF leaps
    THEN IF ~reject_l /\ ~reject_r
         THEN IF op_size_l - buf_len_l >= op_size_r - buf_len_r
              THEN op_size_l - buf_len_l ELSE op_size_r - buf_len_r
         ELSE IF ~reject_l THEN op_size_l - buf_len_l
         ELSE IF ~reject_r THEN op_size_r - buf_len_r
         ELSE 1
    ELSE 1

\* The leap of one expansion (lines 298-308)
Leap(leaps, reject_l, reject_r, op_size_l, op_size_r, buf_len_l, buf_len_r) ==
    IF leaps
    THEN IF ~reject_l /\ ~reject_r
         THEN IF op_size_l - buf_len_l <= op_size_r - buf_len_r
              THEN op_size_l - buf_len_l ELSE op_size_r - buf_len_r
         ELSE IF ~reject_l THEN op_size_l - buf_len_l
         ELSE IF ~reject_r THEN op_size_r - buf_len_r
         ELSE 1
    ELSE 1

\* Faulty variant of Transition: the leap is left out of the test
TransitionWithoutLeap(reject, buf_len, leap, op_size) == ~reject /\ (buf_len = op_size)

\* Faulty variant of Transition: '>=' in place of '=='
TransitionAtLeast(reject, buf_len, leap, op_size) ==
    ~reject /\ (buf_len + leap >= op_size)

\* transition_l, transition_r (lines 310-311)
Transition(reject, buf_len, leap, op_size) == ~reject /\ (buf_len + leap = op_size)

\* extend_buffer(parser, left=...) on the working state e: the side's buffer
\* variable becomes new_bits_var, or a fresh wider variable equated in
\* new_root with old_buf ++ new_bits_var
extend_buffer(e, left) ==
    LET old_buf == e.buf_vars[left]
        new_buf == fresh_variable(e.next, old_buf.size + e.leap)
    IN IF old_buf = None
       THEN [e EXCEPT !.buf_vars[left] = e.new_bits_var]
       ELSE [e EXCEPT !.buf_vars[left] = new_buf.var,
                      !.next = new_buf.next,
                      !.new_root = And(e.new_root,
                                       Equals(new_buf.var,
                                              Concatenate(old_buf, e.new_bits_var)))]

\* The nested loops of lines 369-389 over left_trans and right_trans, pair k
\* of the row-major order: each satisfiable pair is appended to the queue
RECURSIVE Successors(_, _, _, _, _, _)
Successors(left_trans, right_trans, k, x, guarded_form, acc) ==
    IF k > Len(left_trans) * Len(right_trans) THEN acc
    ELSE LET tl == left_trans[((k - 1) \div Len(right_trans)) + 1]
             tr == right_trans[((k - 1) % Len(right_trans)) + 1]
             pf_new == PureFormula(And(x.pf.root, And(tl.form, tr.form)),
                                   x.pf.header_field_vars, x.pf.buf_vars)
             succ == GuardedFormula(acc.next_id, tl.to, tr.to,
                        IF x.transition_l THEN 0 ELSE guarded_form.buf_len_l + x.leap,
                        IF x.transition_r THEN 0 ELSE guarded_form.buf_len_r + x.leap,
                        pf_new, guarded_form.id)
         IN Successors(left_trans, right_trans, k + 1, x, guarded_form,
                IF is_sat(pf_new.root)
                THEN [queue |-> Append(acc.queue, succ), next_id |-> acc.next_id + 1]
                ELSE acc)

\* Lines 282-355 of one expansion of guarded_form: the leap, the extension of
\* both buffers, the strongest postconditions of the sides that transition
Expansion(p1, p2, leaps, next_free, guarded_form) ==
    LET state_l == guarded_form.state_l
        state_r == guarded_form.state_r
        reject_l == state_l = "reject"
        reject_r == state_r = "reject"
        key_error == \/ ~reject_l /\ state_l \notin DOMAIN p1.states
                     \/ ~reject_r /\ state_r \notin DOMAIN p2.states
        op_size_l == IF reject_l \/ key_error THEN 0
                     ELSE p1.states[state_l].operation_block.size
        op_size_r == IF reject_r \/ key_error THEN 0
                     ELSE p2.states[state_r].operation_block.size
        leap == Leap(leaps, reject_l, reject_r, op_size_l, op_size_r,
                     guarded_form.buf_len_l, guarded_form.buf_len_r)
        transition_l == Transition(reject_l, guarded_form.buf_len_l, leap, op_size_l)
        transition_r == Transition(reject_r, guarded_form.buf_len_r, leap, op_size_r)
        new_bits == fresh_variable(next_free, leap)
        e0 == [new_root |-> guarded_form.pf.root,
               buf_vars |-> guarded_form.pf.buf_vars,
               next |-> new_bits.next,
               leap |-> leap,
               new_bits_var |-> new_bits.var]
        e2 == extend_buffer(extend_buffer(e0, p1.is_left), p2.is_left)
        m0 == [raised |-> FALSE, next |-> e2.next,
               pf |-> PureFormula(e2.new_root, guarded_form.pf.header_field_vars,
                                  e2.buf_vars)]
        m1 == IF transition_l
              THEN strongest_postcondition(
                       p1.states[state_l].operation_block.components, m0, p1.is_left)
              ELSE m0
        m2 == IF transition_r
              THEN strongest_postcondition(
                       p2.states[state_r].operation_block.components, m1, p2.is_left)
              ELSE m1
        unresolved ==
            \/ transition_l /\ UnresolvedSelector(
                   p1.states[state_l].transition_block, m2.pf, p1.is_left)
            \/ transition_r /\ UnresolvedSelector(
                   p2.states[state_r].transition_block, m2.pf, p2.is_left)
    IN IF key_error \/ new_bits.raised THEN [raised |-> TRUE]
       ELSE IF m2.raised \/ unresolved THEN [raised |-> TRUE]
       ELSE [raised |-> FALSE,
             leap |-> leap,
             transition_l |-> transition_l,
             transition_r |-> transition_r,
             next |-> m2.next,
             pf |-> m2.pf,
             left_trans |-> IF transition_l
                            THEN symbolic_transition(
                                     p1.states[state_l].transition_block, m2.pf, p1.is_left)
                            ELSE <<[form |-> TrueF, to |-> state_l]>>,
             right_trans |-> IF transition_r
                             THEN symbolic_transition(
                                      p2.states[state_r].transition_block, m2.pf, p2.is_left)
                             ELSE <<[form |-> TrueF, to |-> state_r]>>]

\* The orders in which a set of n symbolic transitions can be enumerated
Orders(n) == {p \in [1 .. n -> 1 .. n] : \A i, j \in 1 .. n : p[i] = p[j] => i = j}

Reorder(seq, p) == [i \in 1 .. Len(seq) |-> seq[p[i]]]

(***************************************************************************)
(* Inputs: IR documents of small parsers.                                  *)
(***************************************************************************)
Path(name) == [Node_Type |-> "PathExpression", name |-> name]

Const(value) == [Node_Type |-> "Constant", value |-> value]

Default == [Node_Type |-> "DefaultExpression"]

Select(selectors, selectCases) ==
    [Node_Type |-> "SelectExpression", select |-> selectors, selectCases |-> selectCases]

Case(keyset, state) == [keyset |-> keyset, state |-> state]

State(name, components, selectExpression) ==
    [name |-> name, components |-> components, selectExpression |-> selectExpression]

\* The IR documents of the parsers that are compared, by name
Progs ==
     \* start { extract(hdr.eth); transition accept }, eth one field
    [A |->
          [types |-> [eth |-> << <<"f", 2>> >>],
           states |-> << State("start", <<"eth">>, Path("accept")) >>],
     \* the same header split into {dst, src} and into {src, dst}
     B1 |->
          [types |-> [eth |-> << <<"dst", 1>>, <<"src", 1>> >>],
           states |-> << State("start", <<"eth">>, Path("accept")) >>],
     B2 |->
          [types |-> [eth |-> << <<"src", 1>>, <<"dst", 1>> >>],
           states |-> << State("start", <<"eth">>, Path("accept")) >>],
     \* extract x; select x { 0: accept; default: reject } and the default first
     C1 |->
          [types |-> [x |-> << <<"x", 1>> >>],
           states |-> << State("start", <<"x">>,
                            Select(<< <<"x", "x">> >>,
                                   << Case(<<Const(0)>>, "accept"),
                                      Case(<<Default>>, "reject") >>)) >>],
     C2 |->
          [types |-> [x |-> << <<"x", 1>> >>],
           states |-> << State("start", <<"x">>,
                            Select(<< <<"x", "x">> >>,
                                   << Case(<<Default>>, "reject"),
                                      Case(<<Const(0)>>, "accept") >>)) >>],
     \* two overlapping cases with the same target, in both orders
     C3 |->
          [types |-> [x |-> << <<"x", 1>> >>],
           states |-> << State("start", <<"x">>,
                            Select(<< <<"x", "x">> >>,
                                   << Case(<<Const(0)>>, "accept"),
                                      Case(<<Default>>, "accept") >>)) >>],
     C4 |->
          [types |-> [x |-> << <<"x", 1>> >>],
           states |-> << State("start", <<"x">>,
                            Select(<< <<"x", "x">> >>,
                                   << Case(<<Default>>, "accept"),
                                      Case(<<Const(0)>>, "accept") >>)) >>],
     \* one state extracting a header, against two states extracting its halves
     D1 |->
          [types |-> [h |-> << <<"a", 4>> >>],
           states |-> << State("start", <<"h">>, Path("accept")) >>],
     D2 |->
          [types |-> [h1 |-> << <<"a", 2>> >>, h2 |-> << <<"b", 2>> >>],
           states |-> << State("start", <<"h1">>, Path("s2")),
                         State("s2", <<"h2">>, Path("accept")) >>],
     \* start -> accept without extraction
     Z |->
          [types |-> [eth |-> << <<"f", 2>> >>],
           states |-> << State("start", <<>>, Path("accept")) >>],
     \* a state without extraction in front of ProgA's
     ZA |->
          [types |-> [eth |-> << <<"f", 2>> >>],
           states |-> << State("start", <<>>, Path("s1")),
                         State("s1", <<"eth">>, Path("accept")) >>],
     \* extract x and accept whatever it is
     S |->
          [types |-> [x |-> << <<"x", 1>> >>],
           states |-> << State("start", <<"x">>, Path("accept")) >>],
     \* ProgC1 with a selector of two bits
     E |->
          [types |-> [x |-> << <<"x", 2>> >>],
           states |-> << State("start", <<"x">>,
                            Select(<< <<"x", "x">> >>,
                                   << Case(<<Const(0)>>, "accept"),
                                      Case(<<Default>>, "reject") >>)) >>],
     \* ProgE with the two verdicts exchanged
     F |->
          [types |-> [x |-> << <<"x", 2>> >>],
           states |-> << State("start", <<"x">>,
                            Select(<< <<"x", "x">> >>,
                                   << Case(<<Const(0)>>, "reject"),
                                      Case(<<Default>>, "accept") >>)) >>],
     \* a loop: extract one bit and start again
     L |->
          [types |-> [x |-> << <<"x", 1>> >>],
           states |-> << State("start", <<"x">>, Path("start")) >>],
     \* extract x; select x { 0: accept } with no case for the other value
     N |->
          [types |-> [x |-> << <<"x", 1>> >>],
           states |-> << State("start", <<"x">>,
                            Select(<< <<"x", "x">> >>, << Case(<<Const(0)>>, "accept") >>)) >>],
     \* one state extracting two headers in a row
     M |->
          [types |-> [h1 |-> << <<"a", 1>> >>, h2 |-> << <<"b", 1>> >>],
           states |-> << State("start", <<"h1", "h2">>, Path("accept")) >>]]

\* (parser1, parser2) of the runs explored
Pairs ==
    << <<Progs.A, Progs.A>>, <<Progs.B1, Progs.B2>>, <<Progs.C1, Progs.C2>>, <<Progs.C2, Progs.C1>>,
       <<Progs.C1, Progs.C1>>, <<Progs.C3, Progs.C4>>, <<Progs.D1, Progs.D2>>, <<Progs.D2, Progs.D1>>,
       <<Progs.Z, Progs.Z>>, <<Progs.A, Progs.ZA>>, <<Progs.S, Progs.C1>>, <<Progs.L, Progs.L>>,
       <<Progs.S, Progs.S>>, <<Progs.E, Progs.E>>, <<Progs.E, Progs.F>>, <<Progs.N, Progs.C3>>,
       <<Progs.C1, Progs.D2>>, <<Progs.M, Progs.A>> >>

\* constraints of the form 'left field' == 'right field'
Constraints ==
    { None,
      [op |-> "Eq", left |-> <<"x", "x">>, right |-> <<"x", "x">>],
      [op |-> "NotEq", left |-> <<"x", "x">>, right |-> <<"x", "x">>],
      [op |-> "Eq", left |-> <<"x", "x">>, right |-> <<"y", "y">>] }

\* Loop iterations explored per run
MaxIter == 8

(***************************************************************************)
(* The constraint compiler (bisimulation/constraint.py).  A constraint is  *)
(* the tree ast.parse returns; a Python string is the sequence of its      *)
(* characters; an exception is the value Raise(exception).                 *)
(***************************************************************************)
Raise(exc) == [t |-> "raise", exc |-> exc]

UnsafeExpression == Raise("UnsafeExpression")

IsRaise(v) == v.t = "raise"

Str(s) == [t |-> "str", s |-> s]

\* str[::-1]
RECURSIVE Reversed(_)
Reversed(s) == IF s = <<>> THEN <<>> ELSE Append(Reversed(Tail(s)), Head(s))

\* the nodes of the tree
Name(id) == [t |-> "Name", id |-> id]

Attribute(value, attr) == [t |-> "Attribute", value |-> value, attr |-> attr]

BinOp(left, op, right) == [t |-> "BinOp", left |-> left, op |-> op, right |-> right]

StrConstant(value) == [t |-> "Constant", str |-> value]

IntConstant(value) == [t |-> "Constant", int |-> value]

BoolOp(op, values) == [t |-> "BoolOp", op |-> op, values |-> values]

Compare(left, ops, comparators) == [t |-> "Compare", left |-> left, ops |-> ops, comparators |-> comparators]

SliceN(lower, upper) == [t |-> "Slice", lower |-> lower, upper |-> upper]

Subscript(value, slice) == [t |-> "Subscript", value |-> value, slice |-> slice]

UnaryOp(op, operand) == [t |-> "UnaryOp", op |-> op, operand |-> operand]

\* _get_hdr_str: attr + '.' + _get_hdr_str(value); a node that is neither a
\* Name nor an Attribute yields None, and str + None is a TypeError
RECURSIVE _get_hdr_str(_)
_get_hdr_str(node) ==
    IF node.t = "Name" THEN Str(node.id)
    ELSE IF node.t = "Attribute"
    THEN LET rest == _get_hdr_str(node.value)
         IN IF rest.t = "str" THEN Str(node.attr \o <<".">> \o rest.s)
            ELSE Raise("TypeError")
    ELSE None

\* _parse_hdr_field: (header[::-1], header[4] == "l"); header[4] of a string
\* of fewer than 5 characters is an IndexError
_parse_hdr_field(node) ==
    LET header == _get_hdr_str(node)
    IN IF IsRaise(header) THEN header
       ELSE IF Len(header.s) < 5 THEN Raise("IndexError")
       ELSE [t |-> "field", header |-> Reversed(header.s), left |-> header.s[5] = "l"]

Digits == <<"0", "1", "2", "3", "4", "5", "6", "7", "8", "9", "a", "b", "c", "d", "e", "f">>

IsDigit(c, base) == \E i \in 1 .. base : Digits[i] = c

DigitOf(c) == (CHOOSE i \in 1 .. Len(Digits) : Digits[i] = c) - 1

RECURSIVE DigitsValue(_, _, _)
DigitsValue(s, base, acc) ==
    IF s = <<>> THEN acc
    ELSE IF Head(s) = "_" THEN DigitsValue(Tail(s), base, acc)
    ELSE DigitsValue(Tail(s), base, acc * base + DigitOf(Head(s)))

\* int(s, base) on strings of digits, letters and underscores: the prefix of
\* the base is optional, digits may be separated by single underscores, and
\* anything else is a ValueError (None here)
int(s, base) ==
    LET prefixed == /\ Len(s) >= 2
                    /\ s[1] = "0"
                    /\ \/ base = 16 /\ s[2] \in {"x", "X"}
                       \/ base = 2 /\ s[2] \in {"b", "B"}
        body == IF prefixed THEN SubSeq(s, 3, Len(s)) ELSE s
        valid == /\ body # <<>>
                 /\ \A i \in 1 .. Len(body) :
                       \/ IsDigit(body[i], base)
                       \/ /\ body[i] = "_"
                          /\ \/ i > 1 /\ IsDigit(body[i - 1], base)
                             \/ i = 1 /\ prefixed
                          /\ i < Len(body) /\ IsDigit(body[i + 1], base)
    IN IF valid THEN [t |-> "int", value |-> DigitsValue(body, base, 0)] ELSE None

\* the sort of a term: the width of a bit-vector, 0 for a Boolean
RECURSIVE Sort(_)
Sort(v) ==
    CASE v.t \in {"var", "const"} -> v.size
      [] v.t = "concat" -> Sort(v.l) + Sort(v.r)
      [] v.t = "extract" -> v.high - v.low + 1
      [] OTHER -> 0

\* pysmt.BV(value, width)
BV(value, width) ==
    IF width <= 0 \/ value >= Pow2(width) THEN Raise("PysmtValueError")
    ELSE Constant(value, width)

\* the constructors of pysmt refuse arguments of the wrong sort
BVConcat(left, right) ==
    IF Sort(left) = 0 \/ Sort(right) = 0 THEN Raise("PysmtTypeError")
    ELSE Concatenate(left, right)

BVExtract(base, low, high) ==
    IF Sort(base) = 0 \/ low < 0 \/ high >= Sort(base) THEN Raise("PysmtTypeError")
    ELSE [t |-> "extract", base |-> base, low |-> low, high |-> high]

SmtEquals(left, right) ==
    IF Sort(left) = 0 \/ Sort(left) # Sort(right) THEN Raise("PysmtTypeError")
    ELSE Equals(left, right)

SmtAnd(left, right) ==
    IF left = None \/ right = None \/ Sort(left) # 0 \/ Sort(right) # 0
    THEN Raise("PysmtTypeError")
    ELSE And(left, right)

SmtOr(left, right) ==
    IF Sort(left) # 0 \/ Sort(right) # 0 THEN Raise("PysmtTypeError")
    ELSE OrF({left, right})

\* lines 56-83: a string constant '<value>_<bitwidth>'
EvalConstant(node) ==
    IF "str" \notin DOMAIN node THEN UnsafeExpression
    ELSE LET s == node.str
             k == IF \E i \in 1 .. Len(s) : s[i] = "_"
                  THEN CHOOSE i \in 1 .. Len(s) :
                          s[i] = "_" /\ \A j \in 1 .. i - 1 : s[j] # "_"
                  ELSE 0
             value_str == SubSeq(s, 1, k - 1)
             bitwidth_str == SubSeq(s, k + 1, Len(s))
             bitwidth == int(bitwidth_str, 10)
             starts(c) == Len(value_str) >= 2 /\ value_str[1] = "0" /\ value_str[2] \in c
             value == IF starts({"x", "X"}) THEN int(value_str, 16)
                      ELSE IF starts({"b", "B"}) THEN int(value_str, 2)
                      ELSE int(value_str, 10)
         IN IF k = 0 THEN UnsafeExpression
            ELSE IF bitwidth = None THEN UnsafeExpression
            ELSE IF value = None THEN UnsafeExpression
            ELSE BV(value.value, bitwidth.value)

\* lines 136-162, once the base is compiled
EvalSubscript(node, base) ==
    IF IsRaise(base) THEN base
    ELSE IF base = None THEN None
    ELSE IF node.slice.t # "Slice" THEN UnsafeExpression
    ELSE IF node.slice.lower = None \/ node.slice.upper = None THEN UnsafeExpression
    ELSE IF node.slice.lower.t # "Constant" \/ node.slice.upper.t # "Constant"
    THEN UnsafeExpression
    ELSE IF "int" \notin DOMAIN node.slice.lower \/ "int" \notin DOMAIN node.slice.upper
    THEN UnsafeExpression
    ELSE LET high == node.slice.lower.int
             low == node.slice.upper.int
         IN IF low > high THEN UnsafeExpression ELSE BVExtract(base, low, high)

\* the rule shared by '+', the Boolean operators and the comparisons: an
\* exception of an operand leaves _eval; one operand None gives FALSE; both
\* None give both_none; otherwise the operator is applied
Combine(left_smt, right_smt, both_none, applied) ==
    IF IsRaise(left_smt) THEN left_smt
    ELSE IF IsRaise(right_smt) THEN right_smt
    ELSE IF (left_smt = None) # (right_smt = None) THEN FalseF
    ELSE IF left_smt = None THEN both_none
    ELSE applied

RECURSIVE _eval(_, _)
_eval(node, pf) ==
    IF node.t \in {"Attribute", "Name"}
    THEN LET field == _parse_hdr_field(node)
         IN IF IsRaise(field) THEN field
            ELSE get_header_field_var(pf, field.header, field.left)
    ELSE IF node.t = "BinOp" /\ node.op = "Add"
    THEN LET left_smt == _eval(node.left, pf)
             right_smt == _eval(node.right, pf)
         IN Combine(left_smt, right_smt, None, BVConcat(left_smt, right_smt))
    ELSE IF node.t = "Constant" THEN EvalConstant(node)
    ELSE IF node.t = "BoolOp"
    THEN IF Len(node.values) # 2 THEN UnsafeExpression
         ELSE LET left_smt == _eval(node.values[1], pf)
                  right_smt == _eval(node.values[2], pf)
              IN Combine(left_smt, right_smt, None,
                         IF node.op = "Or" THEN SmtOr(left_smt, right_smt)
                         ELSE SmtAnd(left_smt, right_smt))
    ELSE IF node.t = "Compare"
    THEN IF Len(node.ops) # 1 \/ Len(node.comparators) # 1 THEN UnsafeExpression
         ELSE LET left_smt == _eval(node.left, pf)
                  right_smt == _eval(node.comparators[1], pf)
              IN Combine(left_smt, right_smt, TrueF,
                         IF node.ops[1] = "Eq" THEN SmtEquals(left_smt, right_smt)
                         ELSE IF node.ops[1] = "NotEq"
                         THEN LET e == SmtEquals(left_smt, right_smt)
                              IN IF IsRaise(e) THEN e ELSE Not(e)
                         ELSE UnsafeExpression)
    ELSE IF node.t = "Subscript" THEN EvalSubscript(node, _eval(node.value, pf))
    ELSE UnsafeExpression

\* constraint.py, lines 166-169: pysmt.And(_eval(tree), pf.to_smt())
compile_constraint(tree, pf) ==
    LET e == _eval(tree, pf)
    IN IF IsRaise(e) THEN e ELSE SmtAnd(e, pf.root)

(***************************************************************************)
(* The state machine: one run of symbolic_bisimulation.                    *)
(***************************************************************************)
VARIABLES parser1, parser2, constraint, enable_leaps,
          work_queue, knowledge, next_free_var_name, next_id,
          pc, result, iterations, first_run, compiled, data, post, selected,
          substituted, config

vars == <<parser1, parser2, constraint, enable_leaps, work_queue, knowledge,
          next_free_var_name, next_id, pc, result, iterations, first_run, compiled,
          data, post, selected, substituted, config>>

inputs == <<parser1, parser2, constraint>>

\* the arguments and results of the calls of the compiler, of the IR parser
\* and of a component's strongest postcondition
calls == <<compiled, data, post, selected, substituted, config>>

\* lines 252-254: empty knowledge, a new manager, the initial formula queued
Init ==
    /\ \E i \in 1 .. Len(Pairs) :
          /\ parser1 = ParserProgram(Pairs[i][1], TRUE)
          /\ parser2 = ParserProgram(Pairs[i][2], FALSE)
    /\ constraint \in Constraints
    /\ enable_leaps \in BOOLEAN
    /\ work_queue = <<initial_guard>>
    /\ knowledge = {}
    /\ next_free_var_name = 0
    /\ next_id = 2
    /\ pc = "loop"
    /\ result = [verdict |-> FALSE, certificate |-> {}, trace |-> <<>>]
    /\ iterations = 0
    /\ first_run = [pc |-> "none", verdict |-> FALSE, certificate |-> {}, trace |-> <<>>]
    /\ substituted = None
    /\ config = None
    /\ compiled = None
    /\ data = None
    /\ post = None
    /\ selected = None

Popping ==
    /\ pc = "loop"
    /\ Len(work_queue) > 0
    /\ iterations < MaxIter

guarded_form == Head(work_queue)

relevant_pfs == get_relevant_formulas(knowledge, guarded_form)

NewInformation == has_new_information(relevant_pfs, guarded_form)

Disagreement == Disagree(guarded_form.state_l, guarded_form.state_r)

ConstraintHolds ==
    IF constraint = None THEN TRUE
    ELSE is_valid(constraint_to_smt(constraint, guarded_form.pf))

BothTerminal == is_terminal(guarded_form.state_l) /\ is_terminal(guarded_form.state_r)

\* lines 261-265: the popped formula carries no new information
KnownStep ==
    /\ Popping
    /\ ~NewInformation
    /\ work_queue' = Tail(work_queue)
    /\ iterations' = iterations + 1
    /\ UNCHANGED <<inputs, calls, enable_leaps, knowledge, next_free_var_name, next_id,
                   pc, result, first_run>>

\* lines 267-270: exactly one side accepts
DisagreeStep ==
    /\ Popping
    /\ NewInformation
    /\ Disagreement
    /\ work_queue' = Tail(work_queue)
    /\ iterations' = iterations + 1
    /\ pc' = "returned"
    /\ result' = [verdict |-> FALSE, certificate |-> {},
                  trace |-> get_trace(knowledge, guarded_form)]
    /\ UNCHANGED <<inputs, calls, enable_leaps, knowledge, next_free_var_name, next_id,
                   first_run>>

\* lines 272-275: the constraint is not valid on the popped formula
ConstraintStep ==
    /\ Popping
    /\ NewInformation
    /\ ~Disagreement
    /\ ~ConstraintHolds
    /\ work_queue' = Tail(work_queue)
    /\ iterations' = iterations + 1
    /\ pc' = "returned"
    /\ result' = [verdict |-> FALSE, certificate |-> {},
                  trace |-> get_trace(knowledge, guarded_form)]
    /\ UNCHANGED <<inputs, calls, enable_leaps, knowledge, next_free_var_name, next_id,
                   first_run>>

\* Faulty variant of TerminalStep: the formula is not recorded
TerminalDrop ==
    /\ Popping
    /\ NewInformation
    /\ ~Disagreement
    /\ ConstraintHolds
    /\ BothTerminal
    /\ work_queue' = Tail(work_queue)
    /\ iterations' = iterations + 1
    /\ UNCHANGED <<inputs, calls, enable_leaps, knowledge, next_free_var_name, next_id, pc,
                   result, first_run>>

\* lines 277-280: both states are terminal
TerminalStep ==
    /\ Popping
    /\ NewInformation
    /\ ~Disagreement
    /\ ConstraintHolds
    /\ BothTerminal
    /\ work_queue' = Tail(work_queue)
    /\ iterations' = iterations + 1
    /\ knowledge' = knowledge \cup {guarded_form}
    /\ UNCHANGED <<inputs, calls, enable_leaps, next_free_var_name, next_id, pc, result,
                   first_run>>

Expanding ==
    /\ Popping
    /\ NewInformation
    /\ ~Disagreement
    /\ ConstraintHolds
    /\ ~BothTerminal

\* lines 357-391 for the expansion x: the satisfiable successors are queued
\* and the formula, whose dicts the expansion has updated, is recorded
Enqueue(x) ==
    /\ ~x.raised
    /\ \E pl \in Orders(Len(x.left_trans)), pr \in Orders(Len(x.right_trans)) :
          LET s == Successors(Reorder(x.left_trans, pl),
                              Reorder(x.right_trans, pr), 1, x, guarded_form,
                              [queue |-> Tail(work_queue), next_id |-> next_id])
          IN /\ work_queue' = s.queue
             /\ next_id' = s.next_id
    /\ next_free_var_name' = x.next
    /\ knowledge' = knowledge \cup
          {[guarded_form EXCEPT
              !.pf = PureFormula(guarded_form.pf.root,
                                 x.pf.header_field_vars, x.pf.buf_vars)]}

\* lines 282-391: the formula is expanded
ExpandStep ==
    /\ Expanding
    /\ Enqueue(Expansion(parser1, parser2, enable_leaps, next_free_var_name,
                         guarded_form))
    /\ iterations' = iterations + 1
    /\ UNCHANGED <<inputs, calls, enable_leaps, pc, result, first_run>>

\* an exception leaves symbolic_bisimulation: ValueError of a variable of
\* size <= 0 or of a missing buffer variable, KeyError of an unknown state,
\* AttributeError of an unresolved reference
RaiseStep ==
    /\ Expanding
    /\ Expansion(parser1, parser2, enable_leaps, next_free_var_name,
                 guarded_form).raised
    /\ work_queue' = Tail(work_queue)
    /\ iterations' = iterations + 1
    /\ pc' = "raised"
    /\ UNCHANGED <<inputs, calls, enable_leaps, knowledge, next_free_var_name, next_id,
                   result, first_run>>

\* Faulty variant of ReturnStep: the verdict is returned with formulas queued
ReturnAnyTime ==
    /\ pc = "loop"
    /\ pc' = "returned"
    /\ result' = [verdict |-> TRUE, certificate |-> knowledge, trace |-> <<>>]
    /\ UNCHANGED <<parser1, parser2, constraint, enable_leaps, work_queue, knowledge,
                   next_free_var_name, next_id, iterations, first_run, calls>>

\* line 393: the queue is empty
ReturnStep ==
    /\ pc = "loop"
    /\ Len(work_queue) = 0
    /\ pc' = "returned"
    /\ result' = [verdict |-> TRUE, certificate |-> knowledge, trace |-> <<>>]
    /\ UNCHANGED <<inputs, calls, enable_leaps, work_queue, knowledge, next_free_var_name,
                   next_id, iterations, first_run>>

Next ==
    \/ KnownStep
    \/ DisagreeStep
    \/ ConstraintStep
    \/ TerminalStep
    \/ ExpandStep
    \/ RaiseStep
    \/ ReturnStep

Spec == Init /\ [][Next]_vars

\* A step of the loop can be taken: the queue is empty (line 393) or a
\* formula is popped (line 257); one of the actions of Next is then enabled
Running == pc = "loop" /\ (Len(work_queue) = 0 \/ iterations < MaxIter)

\* The loop is sequential code: an iteration that can be taken is taken. This
\* is weak fairness of Next, WF_vars(Next), with ENABLED <<Next>>_vars
\* written out as Running.
SpecFair == Init /\ [][Next]_vars /\ ([]<>(~Running) \/ []<><<Next>>_vars)

(***************************************************************************)
(* Two runs on the same input, the second with enable_leaps flipped, to    *)
(* compare what the two settings report.                                   *)
(***************************************************************************)
Finished ==
    \/ pc \in {"returned", "raised"}
    \/ pc = "loop" /\ iterations = MaxIter

NoFilter == constraint = None

Guard(g) == <<g.state_l, g.state_r, g.buf_len_l, g.buf_len_r>>

\* what a run has returned, the formulas being named by their guards
Outcome ==
    [pc |-> pc, verdict |-> result.verdict,
     certificate |-> {Guard(k) : k \in result.certificate},
     trace |-> [i \in 1 .. Len(result.trace) |-> Guard(result.trace[i])]]

\* the first run is over: its outcome is kept and the call is made again,
\* with the other setting of enable_leaps
Rerun ==
    /\ first_run.pc = "none"
    /\ Finished
    /\ first_run' = Outcome
    /\ enable_leaps' = ~enable_leaps
    /\ work_queue' = <<initial_guard>>
    /\ knowledge' = {}
    /\ next_free_var_name' = 0
    /\ next_id' = 2
    /\ pc' = "loop"
    /\ result' = [verdict |-> FALSE, certificate |-> {}, trace |-> <<>>]
    /\ iterations' = 0
    /\ UNCHANGED <<inputs, calls>>

NextLeaps == Next \/ Rerun

SpecLeaps == Init /\ [][NextLeaps]_vars

(***************************************************************************)
(* Two runs on the same input with the same setting: the call is repeated. *)
(***************************************************************************)
RerunSame ==
    /\ first_run.pc = "none"
    /\ Finished
    /\ first_run' = Outcome
    /\ work_queue' = <<initial_guard>>
    /\ knowledge' = {}
    /\ next_free_var_name' = 0
    /\ next_id' = 2
    /\ pc' = "loop"
    /\ result' = [verdict |-> FALSE, certificate |-> {}, trace |-> <<>>]
    /\ iterations' = 0
    /\ UNCHANGED <<inputs, calls, enable_leaps>>

NextTwice == Next \/ RerunSame

SpecTwice == Init /\ [][NextTwice]_vars

(***************************************************************************)
(* The constraint compiler applied to a constraint and a pure formula.     *)
(***************************************************************************)
hdr == <<"h", "d", "r">>

hdr_l == <<"h", "d", "r", "_", "l">>

hdr_r == <<"h", "d", "r", "_", "r">>

\* the reference prefix.header.field, as ast.parse returns it
FieldRef(prefix, header, field) == Attribute(Attribute(Name(prefix), header), field)

\* the key of component.py, lines 118 and 154: output_name.header.field
StoreName(output_name, header, field) == output_name \o <<".">> \o header \o <<".">> \o field

\* hdr_l.x.x, hdr_r.x.x, hdr_r.y.y
FieldRefs == {FieldRef(hdr_l, <<"x">>, <<"x">>), FieldRef(hdr_r, <<"x">>, <<"x">>), FieldRef(hdr_r, <<"y">>, <<"y">>)}

\* The constraints compiled.  Operands: the field references; the names x and
\* call().x; the literals '1_2', '0x4503_16', '0b11_2'; the literals '11',
\* '1_x', 'z_2', '4_2' and 0x4503_16 written without quotes, which Python
\* reads as the integer 0x450316; sums and a difference; the slices
\* name[1:0], name[0:1], name[1:], name[1], name[1:x].  Trees: the operands,
\* their comparisons, and comparisons joined by 'and', 'or' and 'not'.
Trees ==
    LET OtherRefs == {Name(<<"x">>), Attribute([t |-> "Call"], <<"x">>)}
        GoodLiterals == {StrConstant(<<"1", "_", "2">>),
                         StrConstant(<<"0", "x", "4", "5", "0", "3", "_", "1", "6">>),
                         StrConstant(<<"0", "b", "1", "1", "_", "2">>)}
        OtherLiterals == {StrConstant(<<"1", "1">>), StrConstant(<<"1", "_", "x">>),
                          StrConstant(<<"z", "_", "2">>), StrConstant(<<"4", "_", "2">>),
                          IntConstant(4522774)}
        SliceOperands == {FieldRef(hdr_l, <<"x">>, <<"x">>), FieldRef(hdr_r, <<"y">>, <<"y">>),
                          StrConstant(<<"1", "_", "2">>)}
        Slices == {SliceN(IntConstant(1), IntConstant(0)), SliceN(IntConstant(0), IntConstant(1)),
                   SliceN(IntConstant(1), None), [t |-> "Index"],
                   SliceN(IntConstant(1), Name(<<"x">>))}
        Operands ==
            FieldRefs \cup OtherRefs \cup GoodLiterals \cup OtherLiterals
                \cup {BinOp(a, "Add", b) : a, b \in FieldRefs \cup {StrConstant(<<"1", "_", "2">>)}}
                \cup {BinOp(FieldRef(hdr_l, <<"x">>, <<"x">>), "Sub", FieldRef(hdr_r, <<"x">>, <<"x">>))}
                \cup {Subscript(a, s) : a \in SliceOperands, s \in Slices}
        Comparisons ==
            {Compare(a, <<op>>, <<b>>) : a, b \in Operands, op \in {"Eq", "NotEq", "Lt"}}
                \cup {Compare(a, <<"Eq", "Eq">>, <<a, a>>) : a \in FieldRefs}
        Joined == {Compare(a, <<op>>, <<b>>) : a, b \in FieldRefs \cup {Name(<<"x">>)}, op \in {"Eq", "Lt"}}
    IN Operands \cup Comparisons
        \cup {BoolOp(op, <<c, d>>) : c, d \in Joined, op \in {"And", "Or"}}
        \cup {BoolOp("And", <<c, c, c>>) : c \in Joined}
        \cup {UnaryOp("Not", c) : c \in Joined}

\* the output parameters of the two parsers: both 'hdr', or 'hdr_l' and 'hdr_r'
OutputNames == {[left \in BOOLEAN |-> hdr], [left \in BOOLEAN |-> IF left THEN hdr_l ELSE hdr_r]}

\* the pure formulas in which x.x, two bits wide, has been extracted on the
\* given sides
CompilePfs ==
    {PureFormula(TrueF,
                 [key \in {<<StoreName(on[left], <<"x">>, <<"x">>), left>> : left \in sides}
                     |-> Variable(IF key[2] THEN 1 ELSE 2, 2)],
                 [left \in BOOLEAN |-> None]) :
        sides \in SUBSET BOOLEAN, on \in OutputNames}

InitCompile ==
    /\ constraint \in Trees
    /\ compiled \in {[pf |-> pf, smt |-> None] : pf \in CompilePfs}
    /\ data = None
    /\ post = None
    /\ selected = None
    /\ pc = "compile"
    /\ parser1 = ParserProgram(Progs.A, TRUE)
    /\ parser2 = ParserProgram(Progs.A, FALSE)
    /\ enable_leaps = TRUE
    /\ work_queue = <<>>
    /\ knowledge = {}
    /\ next_free_var_name = 0
    /\ next_id = 2
    /\ result = [verdict |-> FALSE, certificate |-> {}, trace |-> <<>>]
    /\ iterations = 0
    /\ first_run = [pc |-> "none", verdict |-> FALSE, certificate |-> {}, trace |-> <<>>]
    /\ substituted = None
    /\ config = None

\* the call constraint_to_smt(constraint, pf) of constraint.py
CompileStep ==
    /\ pc = "compile"
    /\ compiled' = [compiled EXCEPT !.smt = compile_constraint(constraint, compiled.pf)]
    /\ pc' = "compiled"
    /\ UNCHANGED <<inputs, data, post, selected, substituted, config, enable_leaps, work_queue, knowledge, next_free_var_name,
                   next_id, result, iterations, first_run>>

SpecCompile == InitCompile /\ [][CompileStep]_vars

(***************************************************************************)
(* ParserProgram.parse applied to IR documents.                            *)
(***************************************************************************)
Type_Header(name, fields) == [Node_Type |-> "Type_Header", name |-> name, fields |-> fields]

Parameter(name, direction, type) == [name |-> name, direction |-> direction, type |-> type]

P4Parser(input, output, states) ==
    [Node_Type |-> "P4Parser",
     parameters |-> <<Parameter(input, "", "packet_in"), Parameter(output, "out", "headers")>>,
     states |-> states]

\* objects of a document after its types
MaxObjects == 3

\* The documents parsed: the header types of Progs.A and Progs.C1, then up to
\* MaxObjects objects, each the parser of Progs.A, the parser of Progs.C1 (both
\* with the states accept and reject as the IR lists them), a parser that
\* declares only the terminal states, a parser without output parameter, or
\* a control block; and a document without objects
Documents ==
    LET Terminals == << State("accept", <<>>, [Node_Type |-> "None"]),
                        State("reject", <<>>, [Node_Type |-> "None"]) >>
        TypeObjects == << Type_Header("eth", << <<"f", 2>> >>),
                          Type_Header("x", << <<"x", 1>> >>) >>
        Blocks == { P4Parser("pkt", "hdr", Progs.A.states \o Terminals),
                    P4Parser("p", "h", Progs.C1.states \o Terminals),
                    P4Parser("b", "o", Terminals),
                    [Node_Type |-> "P4Parser",
                     parameters |-> <<Parameter("pkt", "", "packet_in")>>,
                     states |-> Progs.A.states],
                    [Node_Type |-> "P4Control"] }
    IN {[objects |-> TypeObjects \o vec] :
           vec \in UNION {[1 .. n -> Blocks] : n \in 1 .. MaxObjects}}
           \cup {[Node_Type |-> "P4Program"]}

InitParse ==
    /\ data \in Documents
    /\ pc = "parse"
    /\ parser1 = None
    /\ parser2 = None
    /\ constraint = None
    /\ compiled = None
    /\ post = None
    /\ selected = None
    /\ enable_leaps = TRUE
    /\ work_queue = <<>>
    /\ knowledge = {}
    /\ next_free_var_name = 0
    /\ next_id = 2
    /\ result = [verdict |-> FALSE, certificate |-> {}, trace |-> <<>>]
    /\ iterations = 0
    /\ first_run = [pc |-> "none", verdict |-> FALSE, certificate |-> {}, trace |-> <<>>]
    /\ substituted = None
    /\ config = None

\* ParserProgram(data, is_left), main.py line 322
ParseStep ==
    /\ pc = "parse"
    /\ \E is_left \in BOOLEAN : parser1' = parse(data, is_left)
    /\ pc' = "parsed"
    /\ UNCHANGED <<parser2, constraint, calls, enable_leaps, work_queue, knowledge,
                   next_free_var_name, next_id, result, iterations, first_run>>

SpecParse == InitParse /\ [][ParseStep]_vars

(***************************************************************************)
(* Assignment.strongest_postcondition applied to an assignment and a pure  *)
(* formula.                                                                *)
(***************************************************************************)
\* x.x = 0, x.x = 1, x.x = x.x, the same for the slice x.x[0:0], and y.y = 0
Assignments ==
    {Assignment(l, r) :
        l \in {Reference(<<"x", "x">>), Slice(<<"x", "x">>, 0, 0), Reference(<<"y", "y">>)},
        r \in {Constant(0, 1), Constant(1, 1), Reference(<<"x", "x">>)}}

\* the pure formulas in which x.x has been extracted on the given sides and
\* the root constrains the variables of these sides
PostPfs ==
    LET Roots(sides) ==
            {TrueF} \cup {Equals(Variable(IF left THEN 1 ELSE 2, 1), Constant(0, 1)) : left \in sides}
                    \cup {Not(Equals(Variable(IF left THEN 1 ELSE 2, 1), Constant(0, 1))) : left \in sides}
    IN UNION {{PureFormula(root,
                           [key \in {<<<<"x", "x">>, left>> : left \in sides}
                               |-> Variable(IF key[2] THEN 1 ELSE 2, 1)],
                           [left \in BOOLEAN |-> None]) : root \in Roots(sides)} :
              sides \in SUBSET BOOLEAN}

\* Widest buffer variable an operation block is applied to
MaxBuffer == 4

\* an assignment on a pure formula of PostPfs, or an operation block of one
\* or two extracts (headers h1 {a: 1 bit} and h2 {a: 1 bit; b: 2 bits}) on a
\* pure formula whose buffer on the given side is absent or a variable B of
\* up to MaxBuffer bits, the root being TRUE or B = v
InitPost ==
    /\ LET types == [h1 |-> << <<"a", 1>> >>, h2 |-> << <<"a", 1>>, <<"b", 2>> >>]
           Blocks == {OperationBlock(types, hs) :
                         hs \in {<<"h1">>, <<"h2">>, <<"h1", "h2">>, <<"h2", "h1">>}}
           B(left, w) == Variable(IF left THEN 1 ELSE 2, w)
           Buffered(left) ==
               {PureFormula(TrueF, <<>>, [l \in BOOLEAN |-> None])}
               \cup UNION {{PureFormula(root, <<>>,
                                        [l \in BOOLEAN |-> IF l = left THEN B(left, w) ELSE None]) :
                               root \in {TrueF} \cup {Equals(B(left, w), Constant(v, w)) :
                                                         v \in 0 .. (Pow2(w) - 1)}} :
                           w \in 1 .. MaxBuffer}
       IN post \in {[component |-> c, left |-> left, before |-> pf,
                     m |-> [raised |-> FALSE, exc |-> "", next |-> 3, pf |-> pf]] :
                       c \in Assignments, left \in BOOLEAN, pf \in PostPfs}
                  \cup UNION {{[component |-> c, left |-> left, before |-> pf,
                                m |-> [raised |-> FALSE, exc |-> "", next |-> 3, pf |-> pf]] :
                                  c \in Blocks, pf \in Buffered(left)} : left \in BOOLEAN}
    /\ pc = "post"
    /\ parser1 = None
    /\ parser2 = None
    /\ constraint = None
    /\ compiled = None
    /\ data = None
    /\ selected = None
    /\ enable_leaps = TRUE
    /\ work_queue = <<>>
    /\ knowledge = {}
    /\ next_free_var_name = 0
    /\ next_id = 2
    /\ result = [verdict |-> FALSE, certificate |-> {}, trace |-> <<>>]
    /\ iterations = 0
    /\ first_run = [pc |-> "none", verdict |-> FALSE, certificate |-> {}, trace |-> <<>>]
    /\ substituted = None
    /\ config = None

\* component.strongest_postcondition(manager, pf, left) of an assignment or
\* of an operation block
PostStep ==
    /\ pc = "post"
    /\ post' = [post EXCEPT !.m =
                  IF "components" \in DOMAIN post.component
                  THEN strongest_postcondition(post.component.components, post.m, post.left)
                  ELSE AssignmentSP(post.m, post.component, post.left)]
    /\ pc' = "posted"
    /\ UNCHANGED <<inputs, compiled, data, selected, substituted, config, enable_leaps, work_queue, knowledge,
                   next_free_var_name, next_id, result, iterations, first_run>>

SpecPost == InitPost /\ [][PostStep]_vars

(***************************************************************************)
(* TransitionBlock.parse followed by symbolic_transition, applied to a     *)
(* select expression over one selector.                                    *)
(***************************************************************************)
MaxCases == 3

\* select (x.x) { ... }: up to MaxCases cases, each a constant or default
SelectExpressions ==
    LET Cases == {Case(<<k>>, st) : k \in {Const(0), Const(1), Default},
                                    st \in {"accept", "reject"}}
    IN {Select(<< <<"x", "x">> >>, cs) :
           cs \in UNION {[1 .. n -> Cases] : n \in 1 .. MaxCases}}

InitSelect ==
    /\ selected \in {[types |-> [x |-> << <<"x", 2>> >>], select_expr |-> e, left |-> left,
                      pf |-> PureFormula(TrueF,
                                         [key \in {<<<<"x", "x">>, l>> : l \in BOOLEAN}
                                             |-> Variable(IF key[2] THEN 1 ELSE 2, 2)],
                                         [l \in BOOLEAN |-> None]),
                      transitions |-> None] :
                        e \in SelectExpressions, left \in BOOLEAN}
    /\ pc = "select"
    /\ parser1 = None
    /\ parser2 = None
    /\ constraint = None
    /\ compiled = None
    /\ data = None
    /\ post = None
    /\ enable_leaps = TRUE
    /\ work_queue = <<>>
    /\ knowledge = {}
    /\ next_free_var_name = 0
    /\ next_id = 2
    /\ result = [verdict |-> FALSE, certificate |-> {}, trace |-> <<>>]
    /\ iterations = 0
    /\ first_run = [pc |-> "none", verdict |-> FALSE, certificate |-> {}, trace |-> <<>>]
    /\ substituted = None
    /\ config = None

\* TransitionBlock(program, json).symbolic_transition(pf)
SelectStep ==
    /\ pc = "select"
    /\ selected' = [selected EXCEPT !.transitions =
                      symbolic_transition(TransitionBlock(selected.types, selected.select_expr),
                                          selected.pf, selected.left)]
    /\ pc' = "selected"
    /\ UNCHANGED <<inputs, compiled, data, post, substituted, config, enable_leaps, work_queue, knowledge,
                   next_free_var_name, next_id, result, iterations, first_run>>

SpecSelect == InitSelect /\ [][SelectStep]_vars

(***************************************************************************)
(* PureFormula.substitute on its own: a root over a few one-bit variables  *)
(* and a mapping of some of them to variables and constants.               *)
(***************************************************************************)
\* Variables a mapping may replace
MaxVars == 2

InitSubst ==
    LET Mapped == {Variable(i, 1) : i \in 1 .. MaxVars}
        Terms == Mapped \cup {Variable(0, 1), Constant(0, 1)}
        Roots == {Equals(a, b) : a, b \in Terms}
                 \cup {Not(Equals(a, b)) : a, b \in Terms}
                 \cup {And(Equals(a, b), Equals(Concatenate(a, b), Concatenate(b, a))) :
                          a, b \in Terms}
        Mappings == UNION {[D -> Terms] : D \in SUBSET Mapped \ {{}}}
    IN /\ substituted \in {[root |-> f, mapping |-> m, calls |-> 0] :
                              f \in Roots, m \in Mappings}
       /\ pc = "substitute"
       /\ parser1 = None
       /\ parser2 = None
       /\ constraint = None
       /\ compiled = None
       /\ data = None
       /\ post = None
       /\ selected = None
       /\ config = None
       /\ enable_leaps = TRUE
       /\ work_queue = <<>>
       /\ knowledge = {}
       /\ next_free_var_name = 0
       /\ next_id = 2
       /\ result = [verdict |-> FALSE, certificate |-> {}, trace |-> <<>>]
       /\ iterations = 0
       /\ first_run = [pc |-> "none", verdict |-> FALSE, certificate |-> {}, trace |-> <<>>]

\* pf.substitute(mapping): self.root = self.root.substitute(self, mapping)
SubstStep ==
    /\ pc = "substitute"
    /\ substituted.calls < 2
    /\ substituted' = [substituted EXCEPT
                          !.root = substitute(substituted.root, substituted.mapping),
                          !.calls = substituted.calls + 1]
    /\ UNCHANGED <<inputs, compiled, data, post, selected, config, enable_leaps, work_queue,
                   knowledge, next_free_var_name, next_id, pc, result, iterations, first_run>>

SpecSubst == InitSubst /\ [][SubstStep]_vars

(***************************************************************************)
(* The concrete automaton (automata/dfa.py).  A bit string is a sequence   *)
(* of 0 and 1, a store maps <<header, field>> to the bits of the field.    *)
(***************************************************************************)
\* DFA.Configuration
Configuration(state_name, store, buffer) ==
    [state |-> state_name, store |-> store, buffer |-> buffer]

is_accepting(configuration) ==
    configuration.state = "accept" /\ configuration.buffer = <<>>

\* Configuration.is_terminal
config_is_terminal(configuration) == configuration.state \in {"accept", "reject"}

\* DFA.initial_config() with its default arguments
initial_config == Configuration("start", <<>>, <<>>)

\* Extract.eval: each field takes its bits from the front of the buffer,
\* buffer[:field_size], and leaves buffer[field_size:]
RECURSIVE ExtractEval(_, _, _, _)
ExtractEval(header_reference, header_content, store, buffer) ==
    IF header_content = <<>> THEN [store |-> store, buffer |-> buffer]
    ELSE LET field == Head(header_content)
             key == <<header_reference, field[1]>>
             n == IF field[2] < Len(buffer) THEN field[2] ELSE Len(buffer)
             written == [k \in DOMAIN store \cup {key} |->
                            IF k = key THEN SubSeq(buffer, 1, n) ELSE store[k]]
         IN ExtractEval(header_reference, Tail(header_content), written,
                        SubSeq(buffer, n + 1, Len(buffer)))

\* OperationBlock.eval: the components in order
RECURSIVE OperationBlockEval(_, _, _)
OperationBlockEval(components, store, buffer) ==
    IF components = <<>> THEN [store |-> store, buffer |-> buffer]
    ELSE LET e == ExtractEval(Head(components).header_reference,
                              Head(components).header_content, store, buffer)
         IN OperationBlockEval(Tail(components), e.store, e.buffer)

\* Faulty variant of step_terminal: the configuration keeps its state
StepKeepsState(configuration) ==
    [raised |-> FALSE,
     config |-> Configuration(configuration.state, configuration.store, <<>>),
     given |-> configuration]

\* DFA.step, line 90: the state is none of the program's
step_terminal(configuration) ==
    [raised |-> FALSE,
     config |-> Configuration("reject", configuration.store, <<>>),
     given |-> configuration]

\* Faulty variant of step: '<=' in place of '<' in the test of line 83
StepLate(program, configuration, bit) ==
    IF configuration.state \in DOMAIN program.states
    THEN [raised |-> Len(configuration.buffer) + 1 >
                        program.states[configuration.state].operation_block.size,
          config |-> Configuration(configuration.state, configuration.store,
                                   Append(configuration.buffer, bit)),
          given |-> configuration]
    ELSE step_terminal(configuration)

\* DFA.step: the configuration returned, and the configuration it was given
\* as the call leaves it (the store is copied before anything is written).
\* TransitionBlock has no method eval, so line 87 raises AttributeError after
\* the operation block has been evaluated on the copy.
step(program, configuration, bit) ==
    LET q == configuration.state
        s == configuration.store
        w == configuration.buffer
        wb == Append(w, bit)
    IN IF q \in DOMAIN program.states
       THEN IF Len(wb) < program.states[q].operation_block.size
            THEN [raised |-> FALSE, config |-> Configuration(q, s, wb),
                  given |-> configuration]
            ELSE [raised |-> TRUE,
                  config |-> OperationBlockEval(
                                 program.states[q].operation_block.components, s, wb),
                  given |-> configuration]
       ELSE step_terminal(configuration)

\* Bits fed to one automaton
MaxBits == 5

\* DFA(program) and DFA.initial_config()
InitDFA ==
    /\ \E i \in 1 .. Len(Pairs), is_left \in BOOLEAN :
          config = [program |-> ParserProgram(Pairs[i][1], is_left),
                    configuration |-> initial_config,
                    given |-> None, bits |-> <<>>, raised |-> FALSE]
    /\ pc = "dfa"
    /\ parser1 = None
    /\ parser2 = None
    /\ constraint = None
    /\ compiled = None
    /\ data = None
    /\ post = None
    /\ selected = None
    /\ substituted = None
    /\ enable_leaps = TRUE
    /\ work_queue = <<>>
    /\ knowledge = {}
    /\ next_free_var_name = 0
    /\ next_id = 2
    /\ result = [verdict |-> FALSE, certificate |-> {}, trace |-> <<>>]
    /\ iterations = 0
    /\ first_run = [pc |-> "none", verdict |-> FALSE, certificate |-> {}, trace |-> <<>>]

\* one round of the loop of multi_step: config = self.step(config, bit)
DFAStep ==
    /\ pc = "dfa"
    /\ ~config.raised
    /\ Len(config.bits) < MaxBits
    /\ \E bit \in {0, 1} :
          LET r == step(config.program, config.configuration, bit)
          IN config' = [config EXCEPT
                           !.configuration = IF r.raised THEN @ ELSE r.config,
                           !.given = r.given,
                           !.bits = Append(@, bit),
                           !.raised = r.raised]
    /\ UNCHANGED <<inputs, compiled, data, post, selected, substituted, enable_leaps,
                   work_queue, knowledge, next_free_var_name, next_id, pc, result,
                   iterations, first_run>>

SpecDFA == InitDFA /\ [][DFAStep]_vars

\* step applied to a configuration of any state, store and buffer
InitStep ==
    /\ \E i \in 1 .. Len(Pairs), is_left \in BOOLEAN :
          \E q \in {"start", "accept", "reject"},
             s \in {<<>>, (<<"eth", "f">> :> <<1, 0>>)},
             w \in {<<>>, <<1>>} :
                config = [program |-> ParserProgram(Pairs[i][1], is_left),
                          configuration |-> Configuration(q, s, w),
                          given |-> None, bits |-> <<>>, raised |-> FALSE]
    /\ pc = "dfa"
    /\ parser1 = None
    /\ parser2 = None
    /\ constraint = None
    /\ compiled = None
    /\ data = None
    /\ post = None
    /\ selected = None
    /\ substituted = None
    /\ enable_leaps = TRUE
    /\ work_queue = <<>>
    /\ knowledge = {}
    /\ next_free_var_name = 0
    /\ next_id = 2
    /\ result = [verdict |-> FALSE, certificate |-> {}, trace |-> <<>>]
    /\ iterations = 0
    /\ first_run = [pc |-> "none", verdict |-> FALSE, certificate |-> {}, trace |-> <<>>]

SpecStep == InitStep /\ [][DFAStep]_vars

(***************************************************************************)
(* Properties.                                                             *)
(***************************************************************************)
IsRun(json1, json2) ==
    /\ parser1 = ParserProgram(json1, TRUE)
    /\ parser2 = ParserProgram(json2, FALSE)

OneAccepts(g) == (g.state_l = "accept") # (g.state_r = "accept")

ReturnedEquivalent == pc = "returned" /\ result.verdict

ReturnedNotEquivalent == pc = "returned" /\ ~result.verdict

\* the formula the counterexample trace ends in
Reported == result.trace[Len(result.trace)]

\* C1 (reflexivity): a parser run against itself with no filter never raises,
\* and when the run returns the verdict is True and the certificate holds a
\* formula with guard (start, start, 0, 0) and, for the single-state parser
\* that extracts one header and accepts, one with guard (accept, accept, 0, 0).
C1_Reflexivity ==
    (parser1.states = parser2.states /\ NoFilter) =>
        /\ pc # "raised"
        /\ pc = "returned" =>
              /\ result.verdict
              /\ \E k \in result.certificate : Guard(k) = <<"start", "start", 0, 0>>
              /\ IsRun(Progs.A, Progs.A) =>
                    \E k \in result.certificate : Guard(k) = <<"accept", "accept", 0, 0>>

C4_EquivalentOnlyWhenDone ==
    ReturnedEquivalent =>
        /\ work_queue = <<>>
        /\ result.certificate = knowledge
        /\ result.trace = <<>>
        /\ \A k \in knowledge : ~OneAccepts(k)

C4_Witness ==
    /\ ReturnedEquivalent
    /\ Cardinality(result.certificate) >= 3
    /\ \E k \in result.certificate : Guard(k) = <<"accept", "accept", 0, 0>>

ReorderedRun ==
    \/ IsRun(Progs.C1, Progs.C2)
    \/ IsRun(Progs.C2, Progs.C1)
    \/ IsRun(Progs.C3, Progs.C4)

AcceptsOnZero(g, left) ==
    /\ (IF left THEN g.state_l ELSE g.state_r) = "accept"
    /\ (IF left THEN g.state_r ELSE g.state_l) = "reject"
    /\ get_header_field_var(g.pf, <<"x", "x">>, left) # None
    /\ ~is_sat(And(g.pf.root,
                   Not(Equals(get_header_field_var(g.pf, <<"x", "x">>, left),
                              Constant(0, 1)))))

IterationsD == IF enable_leaps THEN 3 ELSE 5

C8_ZeroExtraction ==
    (IsRun(Progs.Z, Progs.Z) /\ NoFilter) =>
        /\ pc # "raised"
        /\ pc = "returned" => (result.verdict /\ Cardinality(result.certificate) = 1)

\* the formulas an expansion has appended to the queue
Appended == SubSeq(work_queue', Len(work_queue), Len(work_queue'))

\* the names of the header fields a formula holds for one side
FieldsOf(pf, left) == {key \in DOMAIN pf.header_field_vars : key[2] = left}

\* what an expansion does to one non-terminal side: with buf_len + leap equal
\* to the size of the operation block every successor starts with an empty
\* buffer in a target of the transition block; otherwise every successor keeps
\* the state and the header fields and has leap more bits buffered
SideExpanded(parser, state, buf_len, leap, left) ==
    LET op_size == parser.states[state].operation_block.size
        cases == parser.states[state].transition_block.cases
    IN \A i \in 1 .. Len(Appended) :
          LET n == Appended[i]
              to == IF left THEN n.state_l ELSE n.state_r
              len == IF left THEN n.buf_len_l ELSE n.buf_len_r
          IN IF buf_len + leap = op_size
             THEN /\ len = 0
                  /\ \E c \in 1 .. Len(cases) : cases[c].to = to
             ELSE /\ to = state
                  /\ len = buf_len + leap
                  /\ FieldsOf(n.pf, left) = FieldsOf(Head(work_queue).pf, left)

\* C9: in every expansion (the steps that create variables) a non-terminal side
\* fires only if buf_len + leap equals the size of its operation block;
\* otherwise its state is kept and its buf_len grows by leap.
C9_FiresOnlyWhenFilled ==
    [][(pc = "loop" /\ next_free_var_name' # next_free_var_name) =>
          LET g == Head(work_queue)
              reject_l == g.state_l = "reject"
              reject_r == g.state_r = "reject"
              leap == Leap(enable_leaps, reject_l, reject_r,
                           IF reject_l THEN 0
                           ELSE parser1.states[g.state_l].operation_block.size,
                           IF reject_r THEN 0
                           ELSE parser2.states[g.state_r].operation_block.size,
                           g.buf_len_l, g.buf_len_r)
          IN /\ ~is_terminal(g.state_l) =>
                    SideExpanded(parser1, g.state_l, g.buf_len_l, leap, TRUE)
             /\ ~is_terminal(g.state_r) =>
                    SideExpanded(parser2, g.state_r, g.buf_len_r, leap, FALSE)]_vars

\* the left side waits with 2 of its 4 bits while the right side has fired
C9_Witness ==
    /\ IsRun(Progs.D1, Progs.D2)
    /\ enable_leaps
    /\ \E i \in 1 .. Len(work_queue) : Guard(work_queue[i]) = <<"start", "s2", 2, 0>>

Denoted(ref, pf) ==
    LET left == ref.value.value.id = hdr_l
        keys == {key \in DOMAIN pf.header_field_vars :
                    /\ key[2] = left
                    /\ \E on \in OutputNames :
                          key[1] = StoreName(on[left], ref.value.attr, ref.attr)}
    IN IF keys = {} THEN None ELSE pf.header_field_vars[CHOOSE key \in keys : TRUE]

\* C13 (uninitialised-variable semantics): a comparison 'a == b' or 'a != b'
\* of two header fields compiles to TRUE when neither field has a variable, to
\* FALSE when exactly one has, and to the equality or disequality of the two
\* variables when both have.
C13_ComparisonSemantics ==
    (/\ pc = "compiled"
     /\ constraint.t = "Compare"
     /\ Len(constraint.ops) = 1
     /\ constraint.ops[1] \in {"Eq", "NotEq"}
     /\ constraint.left \in FieldRefs
     /\ constraint.comparators[1] \in FieldRefs) =>
        LET a == Denoted(constraint.left, compiled.pf)
            b == Denoted(constraint.comparators[1], compiled.pf)
        IN compiled.smt =
              And(IF a = None /\ b = None THEN TrueF
                  ELSE IF a = None \/ b = None THEN FalseF
                  ELSE IF constraint.ops[1] = "Eq" THEN Equals(a, b)
                  ELSE Not(Equals(a, b)),
                  compiled.pf.root)

\* the references of FieldRefs that occur in a tree
RECURSIVE Mentioned(_)
Mentioned(node) ==
    IF node = None THEN {}
    ELSE IF node \in FieldRefs THEN {node}
    ELSE IF node.t = "BinOp" THEN Mentioned(node.left) \cup Mentioned(node.right)
    ELSE IF node.t = "Compare"
    THEN Mentioned(node.left)
            \cup UNION {Mentioned(node.comparators[i]) : i \in 1 .. Len(node.comparators)}
    ELSE IF node.t = "BoolOp"
    THEN UNION {Mentioned(node.values[i]) : i \in 1 .. Len(node.values)}
    ELSE IF node.t = "Subscript" THEN Mentioned(node.value)
    ELSE IF node.t = "UnaryOp" THEN Mentioned(node.operand)
    ELSE {}

\* C14 (name resolution): a reference hdr_l.h.f (hdr_r.h.f) that occurs in
\* the constraint compiled is resolved to the variable the pure formula holds
\* for the field h.f on the left (right) side, whenever it holds one.
C14_NameResolution ==
    pc = "compiled" =>
        \A ref \in Mentioned(constraint) :
            Denoted(ref, compiled.pf) # None =>
                _eval(ref, compiled.pf) = Denoted(ref, compiled.pf)

\* a tree uses a construct that is not of the constraint language: an
\* operator other than '+', '==', '!=', 'and', 'or' and slicing, a chained
\* comparison, or a name without the prefix hdr_l or hdr_r
RECURSIVE OutsideGrammar(_)
OutsideGrammar(node) ==
    IF node = None THEN FALSE
    ELSE IF node.t = "Name" THEN node.id \notin {hdr_l, hdr_r}
    ELSE IF node.t = "Attribute" THEN OutsideGrammar(node.value)
    ELSE IF node.t = "Constant" THEN FALSE
    ELSE IF node.t = "BinOp"
    THEN node.op # "Add" \/ OutsideGrammar(node.left) \/ OutsideGrammar(node.right)
    ELSE IF node.t = "Compare"
    THEN \/ Len(node.ops) # 1
         \/ node.ops[1] \notin {"Eq", "NotEq"}
         \/ OutsideGrammar(node.left)
         \/ OutsideGrammar(node.comparators[1])
    ELSE IF node.t = "BoolOp"
    THEN \E i \in 1 .. Len(node.values) : OutsideGrammar(node.values[i])
    ELSE IF node.t = "Subscript"
    THEN node.slice.t # "Slice" \/ OutsideGrammar(node.value)
    ELSE TRUE

\* a comparison of two operands each of which is a header field or the
\* literal 0x4503_16
PlainComparison(node) ==
    /\ node.t = "Compare"
    /\ Len(node.ops) = 1
    /\ node.ops[1] \in {"Eq", "NotEq"}
    /\ \/ {node.left, node.comparators[1]} \subseteq FieldRefs
       \/ {node.left, node.comparators[1]} = {IntConstant(4522774)}

\* C15 (safety of the language): a constraint that uses a construct outside
\* the grammar is rejected with UnsafeExpression, and a comparison of two
\* header fields, or of the literal 0x4503_16 with itself, is compiled to a
\* predicate.
C15_SafeLanguage ==
    pc = "compiled" =>
        /\ OutsideGrammar(constraint) => compiled.smt = UnsafeExpression
        /\ PlainComparison(constraint) => ~IsRaise(compiled.smt)

\* the state names a document's first P4Parser object declares
Declared(json) ==
    LET parsers == {i \in 1 .. Len(json.objects) : json.objects[i].Node_Type = "P4Parser"}
        first == CHOOSE i \in parsers : \A j \in parsers : i <= j
    IN IF parsers = {} THEN {}
       ELSE {json.objects[first].states[k].name : k \in 1 .. Len(json.objects[first].states)}

Built == pc = "parsed" /\ parser1.t = "ParserProgram"

\* C16 as stated: on a built program the lookup of "accept" and of "reject"
\* returns None and does not raise.
C16_TerminalLookupNone ==
    Built => \A name \in {"accept", "reject"} : Lookup(parser1, name) = None

\* C16 (amended): a built program holds no entry for "accept" or "reject",
\* so that looking one up raises KeyError, and it holds an entry with an
\* operation block and a transition block for every other state name its
\* first P4Parser object declares.
C16_TerminalsNotStored ==
    Built =>
        /\ \A name \in {"accept", "reject"} :
              /\ name \notin DOMAIN parser1.states
              /\ Lookup(parser1, name) = [t |-> "raise", exc |-> "KeyError"]
        /\ \A name \in Declared(data) \ {"accept", "reject"} :
              /\ name \in DOMAIN parser1.states
              /\ DOMAIN Lookup(parser1, name) = {"operation_block", "transition_block"}

C16_Witness ==
    /\ Built
    /\ {"start", "accept", "reject"} \subseteq Declared(data)
    /\ Lookup(parser1, "start").operation_block.size = 2

\* a document without the P4Parser objects that follow its first one
FirstOnly(json) ==
    LET parsers == {i \in 1 .. Len(json.objects) : json.objects[i].Node_Type = "P4Parser"}
        keep(i) == json.objects[i].Node_Type # "P4Parser" \/ \A j \in parsers : i <= j
        kept == SelectSeq([i \in 1 .. Len(json.objects) |-> <<i, json.objects[i]>>],
                          LAMBDA e : keep(e[1]))
    IN [objects |-> [i \in 1 .. Len(kept) |-> kept[i][2]]]

\* C17: the program built from a document, or the exception raised, is the
\* one the document gives without the P4Parser objects after its first one:
\* same states, input name, output name and output type.
C17_FirstParserOnly ==
    (pc = "parsed" /\ "objects" \in DOMAIN data) =>
        \E is_left \in BOOLEAN :
            parser1 = parse(FirstOnly(data), is_left)

\* C18: the strongest postcondition of an assignment to a bit slice fails
\* with the Unsupported error and leaves the pure formula as it was.
C18_SliceUnsupported ==
    (pc = "posted" /\ "left" \in DOMAIN post.component /\ post.component.left.kind = "Slice") =>
        /\ post.m.raised
        /\ post.m.exc = "Unsupported"
        /\ post.m.pf = post.before

\* a step of the loop that pops the head of the queue and neither records it
\* nor expands it nor leaves the loop
Discards ==
    /\ pc = "loop"
    /\ work_queue # <<>>
    /\ iterations' = iterations + 1
    /\ work_queue' = Tail(work_queue)
    /\ knowledge' = knowledge
    /\ pc' = "loop"

\* C19 (subsumption soundness): a popped formula g is discarded only when
\* g.pf => OR R is valid, R being the pure formulas of the formulas in
\* knowledge with g's guard; with R empty only when g.pf is unsatisfiable.
C19_SubsumptionSoundness ==
    [][Discards =>
          LET g == Head(work_queue)
              R == {k.pf : k \in {seen \in knowledge : Guard(seen) = Guard(g)}}
          IN /\ is_valid(Implies(g.pf.root, OrF({pf.root : pf \in R})))
             /\ R = {} => ~is_sat(g.pf.root)]_vars

\* a formula has been discarded: more formulas were popped than recorded, and
\* the loop is still running
C19_Witness ==
    /\ pc = "loop"
    /\ knowledge # {}
    /\ iterations > Cardinality(knowledge)

\* the head of the queue is popped by the step; it carries new information,
\* both its states are terminal and either both accept or none does
PopsAgreeingTerminal ==
    /\ pc = "loop"
    /\ work_queue # <<>>
    /\ iterations' = iterations + 1
    /\ LET g == Head(work_queue)
           R == {k.pf : k \in {seen \in knowledge : Guard(seen) = Guard(g)}}
       IN /\ {g.state_l, g.state_r} \subseteq {"accept", "reject"}
          /\ g.state_l = g.state_r
          /\ ~is_valid(Implies(g.pf.root, OrF({pf.root : pf \in R})))

\* the popped formula is recorded and nothing is appended to the queue
Absorbed ==
    /\ knowledge' = knowledge \cup {Head(work_queue)}
    /\ work_queue' = Tail(work_queue)
    /\ pc' = "loop"

ExpandsHead ==
    /\ Expanding
    /\ guarded_form.state_l = "reject" \/ guarded_form.state_l \in DOMAIN parser1.states
    /\ guarded_form.state_r = "reject" \/ guarded_form.state_r \in DOMAIN parser2.states

\* the size of the operation block of a side of the head of the queue
HeadOpSize(parser, state) ==
    IF state = "reject" THEN 0 ELSE parser.states[state].operation_block.size

\* the leap of the expansion of the head of the queue
HeadLeap ==
    Leap(enable_leaps, guarded_form.state_l = "reject", guarded_form.state_r = "reject",
         HeadOpSize(parser1, guarded_form.state_l), HeadOpSize(parser2, guarded_form.state_r),
         guarded_form.buf_len_l, guarded_form.buf_len_r)

\* C21: in every expansion, with leaps or without, also of states whose
\* operation block extracts nothing, the leap is positive (so that new_bits
\* is at least one bit wide).
C21_LeapPositive == ExpandsHead => HeadLeap > 0


\* the cases of the select expression in source order, and whether case j
\* matches the value v of the selector
SourceCases == selected.select_expr.selectCases

Matches(j, v) ==
    \/ SourceCases[j].keyset[1].Node_Type = "DefaultExpression"
    \/ /\ SourceCases[j].keyset[1].Node_Type = "Constant"
       /\ SourceCases[j].keyset[1].value = v

FirstMatch(j, v) == Matches(j, v) /\ \A k \in 1 .. (j - 1) : ~Matches(k, v)

\* the value v of the selector as an assignment to the side's variable of x.x
SelectorIs(v) ==
    (get_header_field_var(selected.pf, <<"x", "x">>, selected.left).name :> v)

\* the targets whose guard holds for the value v
Chosen(v) ==
    {selected.transitions[i].to :
        i \in {n \in 1 .. Len(selected.transitions) :
                  Eval(selected.transitions[n].form, SelectorIs(v))}}

\* C22: the result of symbolic_transition has, for each case j of the source,
\* a pair whose target is t_j and whose guard holds exactly for the values
\* that case j matches and no earlier case matches; hence for every value of
\* the selector that some case matches, the only target chosen is the target
\* of the first matching case in source order. Blocks in which a later case
\* repeats the pattern of an earlier case are included.
C22_PriorityPreserved ==
    pc = "selected" =>
        /\ \A j \in 1 .. Len(SourceCases) :
              \E i \in 1 .. Len(selected.transitions) :
                 /\ selected.transitions[i].to = SourceCases[j].state
                 /\ \A v \in 0 .. 3 :
                       Eval(selected.transitions[i].form, SelectorIs(v)) = FirstMatch(j, v)
        /\ \A v \in 0 .. 3 : \A j \in 1 .. Len(SourceCases) :
              FirstMatch(j, v) => Chosen(v) = {SourceCases[j].state}

\* the working pure formula of the expansion of the head of the queue, after
\* the extension of the buffers and the strongest postconditions
WorkingRoot ==
    Expansion(parser1, parser2, enable_leaps, next_free_var_name, Head(work_queue)).pf.root

ExtractedFrom ==
    /\ pc = "posted"
    /\ "components" \in DOMAIN post.component
    /\ Len(post.component.components) = 1
    /\ post.before.buf_vars[post.left] # None
    /\ post.before.buf_vars[post.left].size >= post.component.size
    /\ post.before.root.t = "eq"

\* bits [from the most significant] skip+1 .. skip+width of the w-bit value v
BitsOf(v, w, skip, width) == (v \div Pow2(w - skip - width)) % Pow2(width)

\* C24: sp(Extract(h)) on a buffer B of value v makes the first field of h
\* the most significant bits of v, the second field the next bits, and so on
\* (B = f_1 ++ f_2 ++ ... ++ f_k ++ R).
C24_ExtractFieldOrder ==
    ExtractedFrom =>
        LET c == post.component.components[1]
            w == post.before.buf_vars[post.left].size
            v == post.before.root.r.value
        IN /\ ~post.m.raised
           /\ is_sat(post.m.pf.root)
           /\ \A i \in 1 .. Len(c.header_content) :
                 is_valid(Implies(post.m.pf.root,
                     Equals(get_header_field_var(post.m.pf,
                                <<c.header_reference, c.header_content[i][1]>>, post.left),
                            Constant(BitsOf(v, w, SumSizes(SubSeq(c.header_content, 1, i - 1)),
                                            c.header_content[i][2]),
                                     c.header_content[i][2]))))

\* an operation block has been applied to a buffer variable at least as wide
\* as the block
BlockAppliedTo ==
    /\ pc = "posted"
    /\ "components" \in DOMAIN post.component
    /\ post.before.buf_vars[post.left] # None
    /\ post.before.buf_vars[post.left].size >= post.component.size

\* C25: after sp(Extract(h)) on a buffer variable B of width w_B >= w_H the
\* side's buffer variable is absent when w_B = w_H and otherwise a fresh
\* variable of width w_B - w_H; after sp of a whole operation block on a
\* buffer of exactly the block's size the buffer variable is absent.
C25_BufferRemainder ==
    BlockAppliedTo =>
        LET B == post.before.buf_vars[post.left]
            R == post.m.pf.buf_vars[post.left]
        IN /\ ~post.m.raised
           /\ B.size = post.component.size => R = None
           /\ (Len(post.component.components) = 1 /\ B.size > post.component.size) =>
                 /\ R # None
                 /\ R.size = B.size - post.component.size
                 /\ R.name # B.name

\* an assignment whose left-hand side is a field that has a variable on the
\* side has been applied
AssignedTo ==
    /\ pc = "posted"
    /\ "left" \in DOMAIN post.component
    /\ post.component.left.kind = "Reference"
    /\ get_header_field_var(post.before, post.component.left.reference, post.left) # None

\* the right-hand side with its reference resolved in the formula before
RhsBefore ==
    IF "reference" \notin DOMAIN post.component.right THEN post.component.right
    ELSE get_header_field_var(post.before, post.component.right.reference, post.left)

\* C26: after sp(Assign(lhs = rhs)) on a side where lhs has the variable v,
\* lhs has a fresh variable v' of the width of v, the root is the root before
\* together with v' = rhs, the references of rhs denoting the values before,
\* and the other header variables and both buffer variables are unchanged.
C26_AssignmentPostcondition ==
    AssignedTo =>
        LET key == <<post.component.left.reference, post.left>>
            v == post.before.header_field_vars[key]
            new == post.m.pf.header_field_vars[key]
            gained == And(post.before.root, Equals(new, RhsBefore))
        IN /\ ~post.m.raised
           /\ new # v
           /\ new.size = v.size
           /\ new \notin used_vars(post.before.root)
           /\ ~is_sat(And(post.m.pf.root, Not(gained)))
           /\ ~is_sat(And(gained, Not(post.m.pf.root)))
           /\ DOMAIN post.m.pf.header_field_vars = DOMAIN post.before.header_field_vars
           /\ \A k \in DOMAIN post.before.header_field_vars \ {key} :
                 post.m.pf.header_field_vars[k] = post.before.header_field_vars[k]
           /\ post.m.pf.buf_vars = post.before.buf_vars

\* the states a state's transition block leads to, and the states reached
\* from a set of states in at most k further transitions
TargetsOf(parser, n) ==
    {parser.states[n].transition_block.cases[i].to :
        i \in 1 .. Len(parser.states[n].transition_block.cases)} \cap DOMAIN parser.states

RECURSIVE ReachedFrom(_, _, _)
ReachedFrom(parser, from, k) ==
    IF k = 0 THEN from
    ELSE ReachedFrom(parser, from \cup UNION {TargetsOf(parser, n) : n \in from}, k - 1)

Acyclic(parser) ==
    \A n \in DOMAIN parser.states :
        n \notin ReachedFrom(parser, TargetsOf(parser, n), Cardinality(DOMAIN parser.states))

SizesPositive(parser) ==
    \A n \in DOMAIN parser.states : parser.states[n].operation_block.size >= 1

Terminating ==
    /\ Acyclic(parser1) /\ Acyclic(parser2)
    /\ SizesPositive(parser1) /\ SizesPositive(parser2)

HeadState(left) == IF left THEN guarded_form.state_l ELSE guarded_form.state_r

HeadBuffer(left) == guarded_form.pf.buf_vars[left]

HeadFires(left) ==
    IF left
    THEN Transition(guarded_form.state_l = "reject", guarded_form.buf_len_l, HeadLeap,
                    HeadOpSize(parser1, guarded_form.state_l))
    ELSE Transition(guarded_form.state_r = "reject", guarded_form.buf_len_r, HeadLeap,
                    HeadOpSize(parser2, guarded_form.state_r))

NewBits == Variable(next_free_var_name, HeadLeap)

\* root has gained an equation that extends the buffer variable old
ExtendsInRoot(n, old) ==
    \E c \in Conjuncts(n.pf.root) \ Conjuncts(guarded_form.pf.root) :
        c.t = "eq" /\ c.r.t = "concat" /\ c.r.l = old

FiredSide(left) ==
    /\ ~is_terminal(HeadState(left))
    /\ (IF left THEN guarded_form.buf_len_l + HeadLeap = HeadOpSize(parser1, guarded_form.state_l)
        ELSE guarded_form.buf_len_r + HeadLeap = HeadOpSize(parser2, guarded_form.state_r))
    /\ \A i \in 1 .. Len(Appended) :
          (IF left THEN Appended[i].buf_len_l ELSE Appended[i].buf_len_r) = 0

\* C29: with leaps enabled, in every expansion (the steps that create
\* variables) at least one non-terminal side fires its transition: its
\* buf_len + leap equals the size of its operation block.
C29_LeapReachesFiringPoint ==
    [][(pc = "loop" /\ enable_leaps /\ next_free_var_name' # next_free_var_name) =>
          FiredSide(TRUE) \/ FiredSide(FALSE)]_vars

\* the only non-terminal side, the right one, has fired from (reject, start, 0, 1)
C29_Witness ==
    /\ IsRun(Progs.C1, Progs.D2)
    /\ enable_leaps
    /\ \E i \in 1 .. Len(work_queue) : Guard(work_queue[i]) = <<"reject", "s2", 1, 0>>

\* the sides of a guarded formula whose state is one of the given states have
\* buffer length 0
EmptyIn(g, states) ==
    /\ g.state_l \in states => g.buf_len_l = 0
    /\ g.state_r \in states => g.buf_len_r = 0

BelowSize(g, left, least) ==
    LET parser == IF left THEN parser1 ELSE parser2
        state == IF left THEN g.state_l ELSE g.state_r
        buf_len == IF left THEN g.buf_len_l ELSE g.buf_len_r
    IN (state \in DOMAIN parser.states /\ parser.states[state].operation_block.size >= least) =>
          (0 <= buf_len /\ buf_len < parser.states[state].operation_block.size)

\* C31: in every guarded formula the engine enqueues, each side whose state
\* is non-terminal has 0 <= buf_len < size of the state's operation block.
C31_NonTerminalBelowSize ==
    \A i \in 1 .. Len(work_queue) : \A left \in BOOLEAN : BelowSize(work_queue[i], left, 0)

\* C31 (amended): the same for each non-terminal side whose operation block
\* has size at least 1; a state that extracts nothing has size 0, below which
\* no buffer length lies.
C31_NonTerminalBelowPositiveSize ==
    \A i \in 1 .. Len(work_queue) : \A left \in BOOLEAN : BelowSize(work_queue[i], left, 1)

\* bit by bit, the left side waits with 3 of its 4 bits and the right side
\* with 1 of the 2 bits of its second state
C31_Witness ==
    /\ IsRun(Progs.D1, Progs.D2)
    /\ ~enable_leaps
    /\ \E i \in 1 .. Len(work_queue) : Guard(work_queue[i]) = <<"start", "s2", 3, 1>>

BufferWidth(g, left) ==
    LET buf_len == IF left THEN g.buf_len_l ELSE g.buf_len_r
        buf == g.pf.buf_vars[left]
    IN IF buf_len = 0 THEN buf = None ELSE buf # None /\ buf.size = buf_len

Inserted == knowledge' \ knowledge

DeclaredFields(parser) ==
    UNION {UNION {{<<parser.states[n].operation_block.components[c].header_reference,
                     parser.states[n].operation_block.components[c].header_content[k][1],
                     parser.states[n].operation_block.components[c].header_content[k][2]>> :
                      k \in 1 .. Len(parser.states[n].operation_block.components[c].header_content)} :
                  c \in 1 .. Len(parser.states[n].operation_block.components)} :
           n \in DOMAIN parser.states}

TotalOver(pf, parser, left) ==
    \A d \in DeclaredFields(parser) :
       /\ <<<<d[1], d[2]>>, left>> \in DOMAIN pf.header_field_vars
       /\ pf.header_field_vars[<<<<d[1], d[2]>>, left>>].size = d[3]

\* C34: before the first expansion the work queue holds one guarded formula,
\* with guard (start, start, 0, 0), root TRUE and no predecessor, whose header
\* variables map every declared header field of each side to a variable of
\* the field's width.
C34_Initialisation ==
    (pc = "loop" /\ iterations = 0 /\ knowledge = {}) =>
       /\ Len(work_queue) = 1
       /\ Guard(work_queue[1]) = <<"start", "start", 0, 0>>
       /\ work_queue[1].pf.root = TrueF
       /\ work_queue[1].prev_guarded_formula = 0
       /\ TotalOver(work_queue[1].pf, parser1, TRUE)
       /\ TotalOver(work_queue[1].pf, parser2, FALSE)


\* C35: applying substitute with the same mapping a second time changes
\* nothing, whatever the mapping.
C35_SubstituteIdempotent ==
    [][(pc = "substitute" /\ substituted.calls = 1) =>
          substituted'.root = substituted.root]_vars

\* the variables of the right-hand sides of a mapping
RangeVars(mapping) == UNION {used_vars(mapping[v]) : v \in DOMAIN mapping}

\* C35 (amended): applying substitute with the same mapping a second time
\* changes nothing when no right-hand side of the mapping mentions a variable
\* of the mapping's domain.
C35_SubstituteIdempotentDisjoint ==
    [][(/\ pc = "substitute"
        /\ substituted.calls = 1
        /\ RangeVars(substituted.mapping) \cap DOMAIN substituted.mapping = {}) =>
          substituted'.root = substituted.root]_vars

C35_Witness ==
    /\ pc = "substitute"
    /\ substituted.calls = 2
    /\ substituted.mapping = (Variable(1, 1) :> Variable(0, 1))
    /\ substituted.root = Equals(Variable(0, 1), Variable(0, 1))


\* the run returned from the disagreement of lines 268-270
DisagreementReported ==
    /\ pc = "returned"
    /\ ~result.verdict
    /\ result.trace # <<>>
    /\ Disagree(Reported.state_l, Reported.state_r)

HasPredecessor(g, know) ==
    IF g.id = 1 THEN g.prev_guarded_formula = 0
    ELSE \E k \in know : k.id = g.prev_guarded_formula /\ k.id < g.id

\* trace runs from the initial formula to g along prev
ChainTo(trace, g) ==
    /\ trace[1].id = 1
    /\ trace[Len(trace)] = g
    /\ \A i \in 1 .. Len(trace) - 1 : trace[i + 1].prev_guarded_formula = trace[i].id

\* C37: a formula enqueued by the expansion of g has g as prev; the initial
\* formula has none; every formula of the queue and of knowledge has a prev
\* created before it (so the chain ends in the initial formula); and the
\* trace of a report lists the chain from the initial formula to the formula
\* the run stopped at.
C37_PredecessorChain ==
    [][/\ \A j \in 1 .. Len(work_queue') :
             /\ HasPredecessor(work_queue'[j], knowledge')
             /\ (pc = "loop" /\ work_queue # <<>> /\ work_queue'[j].id >= next_id) =>
                   work_queue'[j].prev_guarded_formula = Head(work_queue).id
       /\ \A k \in knowledge' : HasPredecessor(k, knowledge')
       /\ (pc = "loop" /\ pc' = "returned" /\ result'.trace # <<>>) =>
             ChainTo(result'.trace, Head(work_queue))]_vars

C37_Witness ==
    /\ pc = "returned"
    /\ Len(result.trace) >= 3
    /\ \E i \in 1 .. Len(work_queue) : work_queue[i].prev_guarded_formula > 1


\* the variables of a pure formula: of its root and of its two dictionaries
VarsOfPF(pf) ==
    used_vars(pf.root)
    \cup {pf.header_field_vars[key] : key \in DOMAIN pf.header_field_vars}
    \cup {pf.buf_vars[left] : left \in {l \in BOOLEAN : pf.buf_vars[l] # None}}

\* the variables of the formulas of the work queue and of knowledge
VarsIn ==
    UNION ({VarsOfPF(work_queue[i].pf) : i \in 1 .. Len(work_queue)}
           \cup {VarsOfPF(k.pf) : k \in knowledge})

\* C38: within a run the counter of the manager never decreases, every
\* variable has a name below the counter, a variable that a step creates has
\* a name the counter had not reached before the step, and two variables with
\* one name are one variable, whatever their widths.
C38_FreshNamesUnique ==
    [][(pc = "loop") =>
         /\ next_free_var_name' >= next_free_var_name
         /\ \A v \in VarsIn' :
               /\ v.name < next_free_var_name'
               /\ v \notin VarsIn => v.name >= next_free_var_name
               /\ \A u \in VarsIn' : u.name = v.name => u = v]_vars

C38_Witness ==
    /\ pc = "loop"
    /\ next_free_var_name >= 4
    /\ \E u, v \in VarsIn : u.size # v.size


ShorterThanSize(least) ==
    LET c == config.configuration
    IN /\ (c.state \in DOMAIN config.program.states
           /\ config.program.states[c.state].operation_block.size >= least) =>
             Len(c.buffer) < config.program.states[c.state].operation_block.size
       /\ config_is_terminal(c) => c.buffer = <<>>
       /\ is_accepting(c) <=> c.state = "accept"

\* C39: a configuration reached from initial_config() by steps has a buffer
\* shorter than the operation block of its state when the state is not
\* terminal and an empty buffer when it is accept or reject, so it is
\* accepting exactly when its state is accept.
C39_ReachableConfigurations == pc = "dfa" => ShorterThanSize(0)

\* C39 (amended): the same for states whose operation block has size at
\* least 1.
C39_ReachableConfigurationsPositive == pc = "dfa" => ShorterThanSize(1)

C39_Witness ==
    /\ pc = "dfa"
    /\ config.configuration.state = "start"
    /\ config.configuration.buffer = <<1, 0, 1>>


\* C40: step applied to a configuration in accept or reject returns reject
\* with the same store contents and an empty buffer and leaves the
\* configuration it was given as it was; so every later step of multi_step
\* stays in reject, and after an accepting configuration no configuration is
\* accepting.
C40_TerminalStep ==
    [][(pc = "dfa" /\ config_is_terminal(config.configuration)) =>
         /\ ~config'.raised
         /\ config'.configuration.state = "reject"
         /\ config'.configuration.store = config.configuration.store
         /\ config'.configuration.buffer = <<>>
         /\ config'.given = config.configuration
         /\ ~is_accepting(config'.configuration)]_vars

C40_Witness ==
    /\ pc = "dfa"
    /\ Len(config.bits) >= 2
    /\ config.given = [state |-> "reject", store |-> (<<"eth", "f">> :> <<1, 0>>),
                       buffer |-> <<>>]
    /\ config.configuration.state = "reject"

=============================================================================
